---- MODULE Spec2Model ----
(***************************************************************************)
(* Model of the rule-based HTML analysis engine of seo-checker:            *)
(*   src/src/lib/html-analyzer.ts     analyzeHtmlContent, isValidHtml      *)
(*   src/src/lib/element-analysis.ts  analyzePageElements                  *)
(* and of the orchestrator that calls it:                                  *)
(*   src/src/lib/env-config.ts        analyzeSeo, the score functions      *)
(*   src/unnamed/part_000             generateAiSuggestions,               *)
(*                                    generateFallbackSuggestions          *)
(* and of the HTTP route in front of it:                                   *)
(*   src/unnamed/part_003             POST, GET, cache                     *)
(*                                                                         *)
(* Both analyzers take an HTML string, hand it to JSDOM and then only ask  *)
(* the resulting DOM questions (querySelector, querySelectorAll,           *)
(* getAttribute, textContent, contains).  JSDOM is a third-party parser,   *)
(* so the input of the model is the parsed document: the head facts the    *)
(* code reads and the body elements in document order with their parent.   *)
(*                                                                         *)
(* Strings the code inspects character-wise are sequences of tokens (an    *)
(* href <<"https", "://", "example.com", "/", "about">>), so startsWith,   *)
(* includes, trim and toLowerCase are computed, not assumed.  Text the     *)
(* code only measures is modelled by its length.  The long constant texts  *)
(* of an issue (description, howToFix, recommendation) and the metadata    *)
(* the claims never read (keywords, Open Graph tags, heading outline) are  *)
(* left out of the result records.                                         *)
(***************************************************************************)
EXTENDS Integers, Sequences, FiniteSets, TLC

VARIABLES
    doc,         \* the parsed HTML the analyzers are given
    url,         \* the reference URL they are given
    htmlResult,  \* what the latest analyzeHtmlContent call returned
    htmlPrev,    \* what the call before it returned
    elemResult,  \* what the latest analyzePageElements call returned
    elemPrev,    \* what the call before it returned
    issueList,   \* the issue list the score functions are given
    htmlContent, \* the text isValidHtml is given
    seoScore,    \* what calculateSeoScoreFromIssues returned
    accessibilityScore,  \* what calculateAccessibilityScoreFromIssues returned
    validHtml,   \* what isValidHtml returned
    type,        \* the type argument of analyzeSeo
    env,         \* how the collaborators of analyzeSeo answer
    result,      \* what analyzeSeo resolved with
    cache,       \* the result cache of the analyze route, keyed 'type:url'
    now,         \* what Date.now() returns, in milliseconds
    requests,    \* the requests the analyze route has received, in order
    analyses,    \* the calls of analyzeSeo the route has made, in order
    suggestions, \* the suggestions array of generateFallbackSuggestions
    fallbackPc   \* where the call of generateFallbackSuggestions stands

analyzerVars == <<doc, url, htmlResult, htmlPrev, elemResult, elemPrev>>
helperVars == <<issueList, htmlContent, seoScore, accessibilityScore, validHtml>>
seoVars == <<type, env, result>>
routeVars == <<cache, now, requests, analyses>>
fallbackVars == <<suggestions, fallbackPc>>
vars == <<analyzerVars, helperVars, seoVars, routeVars, fallbackVars>>

(***************************************************************************)
(* Bounds of the model.                                                    *)
(***************************************************************************)
\* longest sequence of content elements drawn freely from the templates
MaxLeaves == 2
\* longest sequence of headings drawn freely from the heading levels
MaxHeadings == 3
\* most copies of one element in the documents that repeat an element
MaxRepeat == 5
\* longest issue list drawn freely from the issue templates
MaxIssues == 2
\* most copies of one issue in the issue lists that repeat an issue
MaxRun == 12
\* most fragments a text given to isValidHtml is put together from
MaxFragments == 4

(***************************************************************************)
(* JavaScript values.                                                      *)
(***************************************************************************)
\* getAttribute(...) === null / hasAttribute(...) === false, for an
\* attribute whose value is a plain string
Null == "(null)"
\* the same for an attribute whose value is a token sequence
NoAttr == <<"(null)">>

\* String.prototype.startsWith, for a one-token prefix
StartsWith(s, tok) == Len(s) > 0 /\ s[1] = tok

\* href.startsWith('http'): true of the schemes http and https
StartsWithHttp(s) == StartsWith(s, "http") \/ StartsWith(s, "https")

\* String.prototype.includes, for a one-token needle
Includes(s, tok) == \E i \in 1..Len(s) : s[i] = tok

\* new URL(u): an absolute URL <<scheme, "://", host, ...>> parses and has
\* a hostname; anything else (a bare file name, a relative path) throws
\* TypeError
ParseURL(u) ==
    IF Len(u) >= 3 /\ u[1] \in {"http", "https"} /\ u[2] = "://"
    THEN [ok |-> TRUE, hostname |-> u[3]]
    ELSE [ok |-> FALSE, hostname |-> Null]

IsSpace(tok) == tok = " "

RECURSIVE TrimStart(_)
TrimStart(s) ==
    IF s # <<>> /\ IsSpace(Head(s)) THEN TrimStart(Tail(s)) ELSE s

RECURSIVE TrimEnd(_)
TrimEnd(s) ==
    IF s # <<>> /\ IsSpace(s[Len(s)]) THEN TrimEnd(SubSeq(s, 1, Len(s) - 1)) ELSE s

\* String.prototype.trim
Trim(s) == TrimEnd(TrimStart(s))

LowerToken(tok) ==
    CASE tok = "Click Here" -> "click here"
      [] tok = "Read More" -> "read more"
      [] tok = "Home" -> "home"
      [] OTHER -> tok

\* String.prototype.toLowerCase
ToLowerCase(s) == [i \in 1..Len(s) |-> LowerToken(s[i])]

Max(a, b) == IF a >= b THEN a ELSE b
Min(a, b) == IF a <= b THEN a ELSE b

RECURSIVE SumSeq(_)
SumSeq(s) == IF s = <<>> THEN 0 ELSE Head(s) + SumSeq(Tail(s))

(***************************************************************************)
(* The parsed document.                                                    *)
(*   title : [exists, len]   first <title> and the length of its text      *)
(*   meta  : [exists, hasContent, len]  first meta[name="description"]     *)
(*   viewport : a meta[name="viewport"] exists                             *)
(*   structured : "none" | "ld+json" | "itemscope"                         *)
(*   body  : the body's elements in document order; parent is the index    *)
(*           of the enclosing element, 0 for the body itself               *)
(***************************************************************************)
Node(tag, role, cls, parent, alt, href, text, len) ==
    [tag |-> tag, role |-> role, cls |-> cls, parent |-> parent,
     alt |-> alt, href |-> href, text |-> text, len |-> len]

Container(tag, role, cls, parent) ==
    Node(tag, role, cls, parent, Null, NoAttr, <<>>, 0)
Img(alt, cls, parent) == Node("img", "", cls, parent, alt, NoAttr, <<>>, 0)
Heading(level, parent) ==
    Node("h" \o ToString(level), "", <<>>, parent, Null, NoAttr, <<"Home">>, 4)
Anchor(href, text, parent) == Node("a", "", <<>>, parent, Null, href, text, 0)
Para(len, parent) == Node("p", "", <<>>, parent, Null, NoAttr, <<>>, len)

ContainerTags == {"header", "div", "nav", "main", "aside", "footer"}

\* ancestor-or-self containment: Node.contains
RECURSIVE Contains(_, _, _)
Contains(d, a, e) ==
    IF e = 0 THEN FALSE
    ELSE IF e = a THEN TRUE
    ELSE Contains(d, a, d.body[e].parent)

\* the indices (document order) of the elements a selector matches
RECURSIVE SelectIdx(_, _, _)
SelectIdx(d, Sel(_), from) ==
    IF from > Len(d.body) THEN <<>>
    ELSE (IF Sel(d.body[from]) THEN <<from>> ELSE <<>>)
         \o SelectIdx(d, Sel, from + 1)

\* document.querySelectorAll(selector)
QuerySelectorAll(d, Sel(_)) == SelectIdx(d, Sel, 1)

\* document.querySelector(selector): the first match, 0 for null
QuerySelector(d, Sel(_)) ==
    LET all == QuerySelectorAll(d, Sel) IN IF all = <<>> THEN 0 ELSE all[1]

HasClass(n, c) == \E i \in 1..Len(n.cls) : n.cls[i] = c
\* the selectors the analyzers use, as predicates on an element
MatchTag(n, t) == n.tag = t
MatchDivRole(n, r) == n.tag = "div" /\ n.role = r
MatchClass(n, c) == HasClass(n, c)
MatchHeading(n) == n.tag \in {"h1", "h2", "h3", "h4", "h5", "h6"}
MatchLink(n) == n.tag = "a" /\ n.href # NoAttr
MatchImgWithAlt(n) == n.tag = "img" /\ n.alt # Null /\ n.alt # ""
MatchImgEmptyAlt(n) == n.tag = "img" /\ n.alt = ""

(***************************************************************************)
(* Document Analyzer: analyzeHtmlContent (html-analyzer.ts).               *)
(***************************************************************************)
\* a counter kept at module scope instead: a call goes on where the call
\* before it stopped
InitialIdShared ==
    IF htmlResult.status = "returned" THEN Len(htmlResult.issues) + 1 ELSE 1

\* let id = 1: the counter is a local of the call
InitialId == 1

\* issues.push({ id: id++, severity, title, ... })
PushIssue(st, severity, title) ==
    [issues |-> Append(st.issues,
                       [id |-> st.id, severity |-> severity, title |-> title]),
     id |-> st.id + 1]

\* document.querySelector('title')?.textContent || '', by its length
TitleLength(d) == IF d.title.exists THEN d.title.len ELSE 0

\* document.querySelector('meta[name="description"]')
\*     ?.getAttribute('content') || '', by its length
MetaDescriptionLength(d) ==
    IF d.meta.exists /\ d.meta.hasContent THEN d.meta.len ELSE 0

CountTag(d, t) == Len(QuerySelectorAll(d, LAMBDA n : MatchTag(n, t)))

\* const headings = { h1: h1Elements.length, ... }
HeadingCounts(d) ==
    [h1 |-> CountTag(d, "h1"), h2 |-> CountTag(d, "h2"),
     h3 |-> CountTag(d, "h3"), h4 |-> CountTag(d, "h4"),
     h5 |-> CountTag(d, "h5"), h6 |-> CountTag(d, "h6")]

\* withoutAlt taken as everything that has no non-empty alt
ImagesWithoutAltOrEmpty(total, withAlt, withEmptyAlt) == total - withAlt

\* images.withoutAlt
ImagesWithoutAlt(total, withAlt, withEmptyAlt) == total - withAlt - withEmptyAlt

\* const images = { total, withAlt, withoutAlt, withEmptyAlt }
ImageCounts(d) ==
    LET total == CountTag(d, "img")
        withAlt == Len(QuerySelectorAll(d, MatchImgWithAlt))
        withEmptyAlt == Len(QuerySelectorAll(d, MatchImgEmptyAlt))
    IN [total |-> total, withAlt |-> withAlt,
        withoutAlt |-> ImagesWithoutAlt(total, withAlt, withEmptyAlt),
        withEmptyAlt |-> withEmptyAlt]

\* the body of allLinks.forEach for one href: which counter it bumps, or
\* "throw" when it evaluates new URL(url) on a string that is no URL
LinkKind(href, u) ==
    IF StartsWith(href, "#") \/ StartsWith(href, "/") THEN "internal"
    ELSE IF u # <<>>
         THEN IF ~ParseURL(u).ok THEN "throw"
              ELSE IF Includes(href, ParseURL(u).hostname) THEN "internal"
              ELSE IF StartsWithHttp(href) THEN "external"
              ELSE "none"
    ELSE IF StartsWithHttp(href) THEN "external"
    ELSE "none"

AllLinks(d) == QuerySelectorAll(d, MatchLink)

CountKind(d, u, kind) ==
    LET links == AllLinks(d)
    IN Cardinality({i \in 1..Len(links) : LinkKind(d.body[links[i]].href, u) = kind})

\* const links = { total, internal, external }
LinkCounts(d, u) ==
    [total |-> Len(AllLinks(d)),
     internal |-> CountKind(d, u, "internal"),
     external |-> CountKind(d, u, "external")]

\* the link loop throws on the first link that reaches new URL(url)
LinkLoopThrows(d, u) == CountKind(d, u, "throw") > 0

\* the short-title test with <= in place of <
CheckTitleInclusive(st, d) ==
    IF TitleLength(d) = 0 THEN PushIssue(st, "high", "Missing page title")
    ELSE IF TitleLength(d) <= 10 THEN PushIssue(st, "medium", "Title too short")
    ELSE IF TitleLength(d) > 60 THEN PushIssue(st, "low", "Title too long")
    ELSE st

\* Title issues
CheckTitle(st, d) ==
    IF TitleLength(d) = 0 THEN PushIssue(st, "high", "Missing page title")
    ELSE IF TitleLength(d) < 10 THEN PushIssue(st, "medium", "Title too short")
    ELSE IF TitleLength(d) > 60 THEN PushIssue(st, "low", "Title too long")
    ELSE st

\* Meta description issues
CheckMetaDescription(st, d) ==
    IF MetaDescriptionLength(d) = 0
    THEN PushIssue(st, "high", "Missing meta description")
    ELSE IF MetaDescriptionLength(d) < 50
    THEN PushIssue(st, "medium", "Meta description too short")
    ELSE IF MetaDescriptionLength(d) > 160
    THEN PushIssue(st, "low", "Meta description too long")
    ELSE st

\* Heading structure issues
CheckH1Count(st, d) ==
    IF HeadingCounts(d).h1 = 0 THEN PushIssue(st, "high", "Missing H1 heading")
    ELSE IF HeadingCounts(d).h1 > 1
    THEN PushIssue(st, "medium", "Multiple H1 headings")
    ELSE st

CheckH2WithoutH1(st, d) ==
    IF HeadingCounts(d).h1 = 0 /\ HeadingCounts(d).h2 > 0
    THEN PushIssue(st, "medium", "H2 without H1")
    ELSE st

\* the H3 check asking for the H1 instead of the H2
CheckH3WithoutH1(st, d) ==
    IF HeadingCounts(d).h1 = 0 /\ HeadingCounts(d).h3 > 0
    THEN PushIssue(st, "low", "H3 without H2")
    ELSE st

CheckH3WithoutH2(st, d) ==
    IF HeadingCounts(d).h2 = 0 /\ HeadingCounts(d).h3 > 0
    THEN PushIssue(st, "low", "H3 without H2")
    ELSE st

\* Image issues
CheckImages(st, d) ==
    IF ImageCounts(d).total > 0 /\ ImageCounts(d).withoutAlt > 0
    THEN PushIssue(st, "medium", "Images missing alt text")
    ELSE st

\* Link issues: links whose trimmed text content is empty
LinksWithoutText(d) ==
    LET links == AllLinks(d)
    IN Cardinality({i \in 1..Len(links) : Trim(d.body[links[i]].text) = <<>>})

CheckLinks(st, d) ==
    IF LinksWithoutText(d) > 0
    THEN PushIssue(st, "medium", "Links without text")
    ELSE st

\* Check for mobile viewport
CheckViewport(st, d) ==
    IF ~d.viewport THEN PushIssue(st, "high", "Missing viewport meta tag")
    ELSE st

\* Check for structured data
HasStructuredData(d) == d.structured = "ld+json" \/ d.structured = "itemscope"

CheckStructuredData(st, d) ==
    IF ~HasStructuredData(d)
    THEN PushIssue(st, "medium", "Missing structured data")
    ELSE st

\* the nine checks with the image check moved to the end
RunChecksImagesLast(d) ==
    CheckImages(CheckStructuredData(CheckViewport(CheckLinks(
        CheckH3WithoutH2(CheckH2WithoutH1(CheckH1Count(CheckMetaDescription(
            CheckTitle([issues |-> <<>>, id |-> InitialId], d), d), d), d), d),
        d), d), d), d)

\* the nine checks in source order
RunChecks(d) ==
    CheckStructuredData(CheckViewport(CheckLinks(CheckImages(
        CheckH3WithoutH2(CheckH2WithoutH1(CheckH1Count(CheckMetaDescription(
            CheckTitle([issues |-> <<>>, id |-> InitialId], d), d), d), d), d),
        d), d), d), d)

Threw == [status |-> "threw"]
NoResult == [status |-> "none"]
\* a call that returned a number or a boolean
Returned(value) == [status |-> "returned", value |-> value]

\* analyzeHtmlContent(htmlContent, url): the value returned, or Threw
analyzeHtmlContent(d, u) ==
    IF LinkLoopThrows(d, u) THEN Threw
    ELSE [status |-> "returned",
          title |-> TitleLength(d),
          description |-> MetaDescriptionLength(d),
          issues |-> RunChecks(d).issues,
          headings |-> HeadingCounts(d),
          images |-> ImageCounts(d),
          links |-> LinkCounts(d, u)]

(***************************************************************************)
(* Element Analyzer: analyzePageElements (element-analysis.ts).            *)
(*                                                                         *)
(* Every check of the source builds an ElementIssue, pushes it on          *)
(* elementIssues, looks the section record up by name, pushes the issue on *)
(* that record and subtracts a penalty from its score.  A "finding" is one *)
(* such block: the issue, the name the record is looked up by, and the     *)
(* penalty.                                                                *)
(***************************************************************************)
Finding(selector, element, issue, severity, section, record, penalty) ==
    [issue |-> [selector |-> selector, element |-> element, issue |-> issue,
                severity |-> severity, section |-> section],
     record |-> record, penalty |-> penalty]

\* a || b on element references (0 is null)
OrElse(a, b) == IF a # 0 THEN a ELSE b

\* const sections = { header: ..., navigation: ..., content: ..., ... }
Sections(d) ==
    [header |-> OrElse(QuerySelector(d, LAMBDA n : MatchTag(n, "header")),
                OrElse(QuerySelector(d, LAMBDA n : MatchDivRole(n, "banner")),
                       QuerySelector(d, LAMBDA n : MatchClass(n, "header")))),
     navigation |-> OrElse(QuerySelector(d, LAMBDA n : MatchTag(n, "nav")),
                           QuerySelector(d, LAMBDA n : MatchDivRole(n, "navigation"))),
     content |-> OrElse(QuerySelector(d, LAMBDA n : MatchTag(n, "main")),
                 OrElse(QuerySelector(d, LAMBDA n : MatchDivRole(n, "main")),
                        QuerySelector(d, LAMBDA n : MatchClass(n, "content")))),
     sidebar |-> OrElse(QuerySelector(d, LAMBDA n : MatchTag(n, "aside")),
                        QuerySelector(d, LAMBDA n : MatchClass(n, "sidebar"))),
     footer |-> OrElse(QuerySelector(d, LAMBDA n : MatchTag(n, "footer")),
                OrElse(QuerySelector(d, LAMBDA n : MatchDivRole(n, "contentinfo")),
                       QuerySelector(d, LAMBDA n : MatchClass(n, "footer"))))]

\* Object.entries(sections): the keys in insertion order
SectionOrder == <<"header", "navigation", "content", "sidebar", "footer">>

\* the loop without its early return: the last containing region wins
determineSectionLastMatch(d, e, sections) ==
    LET hits == {i \in 1..Len(SectionOrder) :
                    /\ sections[SectionOrder[i]] # 0
                    /\ Contains(d, sections[SectionOrder[i]], e)}
    IN IF hits = {} THEN "general"
       ELSE SectionOrder[CHOOSE i \in hits : \A j \in hits : i >= j]

\* determineSectionForElement(element, sections)
determineSectionForElement(d, e, sections) ==
    LET hits == {i \in 1..Len(SectionOrder) :
                    /\ sections[SectionOrder[i]] # 0
                    /\ Contains(d, sections[SectionOrder[i]], e)}
    IN IF hits = {} THEN "general"
       ELSE SectionOrder[CHOOSE i \in hits : \A j \in hits : i <= j]

RECURSIVE JoinClasses(_)
JoinClasses(cls) ==
    IF cls = <<>> THEN "" ELSE "." \o Head(cls) \o JoinClasses(Tail(cls))

\* getSelector(element); the modelled elements carry no id attribute
getSelector(n) == n.tag \o JoinClasses(n.cls)

\* the first letter put in upper case and nothing else
capitalizeFirstLetterOnly(string) ==
    IF string = "header" THEN "Header"
    ELSE IF string = "navigation" THEN "Navigation"
    ELSE IF string = "content" THEN "Content"
    ELSE IF string = "sidebar" THEN "Sidebar"
    ELSE IF string = "footer" THEN "Footer"
    ELSE "General"

\* capitalizeFirstLetter(string)
capitalizeFirstLetter(string) ==
    IF string = "header" THEN "Header"
    ELSE IF string = "navigation" THEN "Navigation"
    ELSE IF string = "content" THEN "Main Content"
    ELSE IF string = "sidebar" THEN "Sidebar"
    ELSE IF string = "footer" THEN "Footer"
    ELSE "General"

\* the finding of a check on an element that is attributed to a section
ElementFinding(d, sections, e, element, issue, severity, penalty) ==
    LET section == determineSectionForElement(d, e, sections)
    IN Finding(getSelector(d.body[e]), element, issue, severity, section,
               capitalizeFirstLetter(section), penalty)

\* Check title tag
TitleFindings(d) ==
    IF ~d.title.exists \/ d.title.len = 0
    THEN <<Finding("head > title", "Title", "Missing page title", "high",
                   "header", "Header", 25)>>
    ELSE IF d.title.len < 20
    THEN <<Finding("head > title", "Title", "Title is too short", "medium",
                   "header", "Header", 15)>>
    ELSE IF d.title.len > 60
    THEN <<Finding("head > title", "Title", "Title is too long", "low",
                   "header", "Header", 10)>>
    ELSE <<>>

\* the short-description test with <= in place of <
MetaDescriptionFindingsInclusive(d) ==
    IF ~d.meta.exists \/ ~d.meta.hasContent \/ d.meta.len = 0
    THEN <<Finding("head > meta[name=\"description\"]", "Meta Description",
                   "Missing meta description", "high", "header", "Header", 25)>>
    ELSE IF d.meta.len <= 70
    THEN <<Finding("head > meta[name=\"description\"]", "Meta Description",
                   "Meta description is too short", "medium", "header",
                   "Header", 15)>>
    ELSE IF d.meta.len > 160
    THEN <<Finding("head > meta[name=\"description\"]", "Meta Description",
                   "Meta description is too long", "low", "header",
                   "Header", 10)>>
    ELSE <<>>

\* Check meta description
MetaDescriptionFindings(d) ==
    IF ~d.meta.exists \/ ~d.meta.hasContent \/ d.meta.len = 0
    THEN <<Finding("head > meta[name=\"description\"]", "Meta Description",
                   "Missing meta description", "high", "header", "Header", 25)>>
    ELSE IF d.meta.len < 70
    THEN <<Finding("head > meta[name=\"description\"]", "Meta Description",
                   "Meta description is too short", "medium", "header",
                   "Header", 15)>>
    ELSE IF d.meta.len > 160
    THEN <<Finding("head > meta[name=\"description\"]", "Meta Description",
                   "Meta description is too long", "low", "header",
                   "Header", 10)>>
    ELSE <<>>

\* the image check asking for a non-empty alt value instead of the attribute
RECURSIVE ImageFindingsEmptyAlt(_, _, _)
ImageFindingsEmptyAlt(d, sections, imgs) ==
    IF imgs = <<>> THEN <<>>
    ELSE (IF d.body[Head(imgs)].alt = Null \/ d.body[Head(imgs)].alt = ""
          THEN <<ElementFinding(d, sections, Head(imgs), "Image",
                                "Image missing alt text", "medium", 10)>>
          ELSE <<>>)
         \o ImageFindingsEmptyAlt(d, sections, Tail(imgs))

\* Check for images without alt text: images.forEach
RECURSIVE ImageFindings(_, _, _)
ImageFindings(d, sections, imgs) ==
    IF imgs = <<>> THEN <<>>
    ELSE (IF d.body[Head(imgs)].alt = Null
          THEN <<ElementFinding(d, sections, Head(imgs), "Image",
                                "Image missing alt text", "medium", 10)>>
          ELSE <<>>)
         \o ImageFindings(d, sections, Tail(imgs))

\* parseInt(heading.tagName.substring(1))
HeadingLevel(tag) ==
    CASE tag = "h1" -> 1 [] tag = "h2" -> 2 [] tag = "h3" -> 3
      [] tag = "h4" -> 4 [] tag = "h5" -> 5 [] tag = "h6" -> 6

\* the test off by one: the first H1 is flagged too
IsRepeatedH1FromFirst(h1Count) == h1Count >= 1

\* the test that makes an H1 a repeated one, after h1Count++
IsRepeatedH1(h1Count) == h1Count > 1

\* the test without its guard on the first heading: the level a walk starts
\* with, 0, counts as a heading level
IsSkippedLevelFromStart(previousHeadingLevel, level) ==
    level > previousHeadingLevel + 1

\* Check for skipped heading levels: the condition on the loop's variable
\* previousHeadingLevel and the heading's level
IsSkippedLevel(previousHeadingLevel, level) ==
    previousHeadingLevel > 0 /\ level > previousHeadingLevel + 1

\* Check for heading structure: headings.forEach, with the loop's two
\* variables h1Count and previousHeadingLevel
RECURSIVE HeadingWalk(_, _, _, _, _)
HeadingWalk(d, sections, hs, h1Count, previousHeadingLevel) ==
    IF hs = <<>> THEN [findings |-> <<>>, h1Count |-> h1Count]
    ELSE LET e == Head(hs)
             level == HeadingLevel(d.body[e].tag)
             count == IF level = 1 THEN h1Count + 1 ELSE h1Count
             multiple ==
                 IF level = 1 /\ IsRepeatedH1(count)
                 THEN <<ElementFinding(d, sections, e, "H1 Heading",
                                       "Multiple H1 headings", "medium", 15)>>
                 ELSE <<>>
             skipped ==
                 IF IsSkippedLevel(previousHeadingLevel, level)
                 THEN <<ElementFinding(d, sections, e,
                            "H" \o ToString(level) \o " Heading",
                            "Skipped heading level (H"
                                \o ToString(previousHeadingLevel) \o " to H"
                                \o ToString(level) \o ")",
                            "low", 5)>>
                 ELSE <<>>
             rest == HeadingWalk(d, sections, Tail(hs), count, level)
         IN [findings |-> multiple \o skipped \o rest.findings,
             h1Count |-> rest.h1Count]

AllHeadings(d) == QuerySelectorAll(d, MatchHeading)

\* the test taking a single H1 for none
MissingH1FindingsUnlessRepeated(h1Count) ==
    IF h1Count <= 1
    THEN <<Finding("body", "H1 Heading", "Missing H1 heading", "high",
                   "content", "Main Content", 20)>>
    ELSE <<>>

\* Check for missing H1, on the h1Count the heading loop ends with
MissingH1Findings(h1Count) ==
    IF h1Count = 0
    THEN <<Finding("body", "H1 Heading", "Missing H1 heading", "high",
                   "content", "Main Content", 20)>>
    ELSE <<>>

\* the condition of the link check on a link's textContent
IsPoorLinkText(text) ==
    \/ text = <<>>
    \/ Len(Trim(text)) = 0
    \/ ToLowerCase(Trim(text)) = <<"click here">>
    \/ ToLowerCase(Trim(text)) = <<"read more">>

\* Check for links without descriptive text: links.forEach
RECURSIVE LinkFindings(_, _, _)
LinkFindings(d, sections, links) ==
    IF links = <<>> THEN <<>>
    ELSE (IF IsPoorLinkText(d.body[Head(links)].text)
          THEN <<ElementFinding(d, sections, Head(links), "Link",
                     IF d.body[Head(links)].text # <<>>
                     THEN "Non-descriptive link text"
                     ELSE "Link missing text content",
                     "medium", 10)>>
          ELSE <<>>)
         \o LinkFindings(d, sections, Tail(links))

\* Check for long paragraphs: paragraphs.forEach
RECURSIVE ParagraphFindings(_, _, _)
ParagraphFindings(d, sections, ps) ==
    IF ps = <<>> THEN <<>>
    ELSE (IF d.body[Head(ps)].len > 0 /\ d.body[Head(ps)].len > 300
          THEN <<ElementFinding(d, sections, Head(ps), "Paragraph",
                     "Long paragraph (over 300 characters)", "low", 5)>>
          ELSE <<>>)
         \o ParagraphFindings(d, sections, Tail(ps))

AllImages(d) == QuerySelectorAll(d, LAMBDA n : MatchTag(n, "img"))
AllParagraphs(d) == QuerySelectorAll(d, LAMBDA n : MatchTag(n, "p"))

\* every block of the function body, in source order
Findings(d) ==
    LET sections == Sections(d)
        walk == HeadingWalk(d, sections, AllHeadings(d), 0, 0)
    IN TitleFindings(d) \o MetaDescriptionFindings(d)
       \o ImageFindings(d, sections, AllImages(d))
       \o walk.findings \o MissingH1Findings(walk.h1Count)
       \o LinkFindings(d, sections, AllLinks(d))
       \o ParagraphFindings(d, sections, AllParagraphs(d))

\* the section records kept at module scope instead: a call goes on with
\* the records the call before it left
InitialSectionAnalysisShared ==
    IF elemResult.status = "returned" THEN elemResult.sectionAnalysis
    ELSE <<[name |-> "Header", score |-> 100, issues |-> <<>>, importance |-> 8],
           [name |-> "Navigation", score |-> 100, issues |-> <<>>, importance |-> 7],
           [name |-> "Main Content", score |-> 100, issues |-> <<>>, importance |-> 10],
           [name |-> "Sidebar", score |-> 100, issues |-> <<>>, importance |-> 5],
           [name |-> "Footer", score |-> 100, issues |-> <<>>, importance |-> 4],
           [name |-> "General", score |-> 100, issues |-> <<>>, importance |-> 6]>>

\* Initialize section analysis
InitialSectionAnalysis ==
    <<[name |-> "Header", score |-> 100, issues |-> <<>>, importance |-> 8],
      [name |-> "Navigation", score |-> 100, issues |-> <<>>, importance |-> 7],
      [name |-> "Main Content", score |-> 100, issues |-> <<>>, importance |-> 10],
      [name |-> "Sidebar", score |-> 100, issues |-> <<>>, importance |-> 5],
      [name |-> "Footer", score |-> 100, issues |-> <<>>, importance |-> 4],
      [name |-> "General", score |-> 100, issues |-> <<>>, importance |-> 6]>>

\* sectionAnalysis.find(s => s.name === name): the first such index, 0 if none
FindRecord(secs, name) ==
    LET hits == {i \in 1..Len(secs) : secs[i].name = name}
    IN IF hits = {} THEN 0 ELSE CHOOSE i \in hits : \A j \in hits : i <= j

\* the issue pushed on the record and the score left as it is
ApplyFindingUnscored(secs, f) ==
    LET k == FindRecord(secs, f.record)
    IN IF k = 0 THEN secs
       ELSE [secs EXCEPT ![k] = [@ EXCEPT !.issues = Append(@, f.issue)]]

\* sectionObj.issues.push(issue); sectionObj.score -= penalty
ApplyFinding(secs, f) ==
    LET k == FindRecord(secs, f.record)
    IN IF k = 0 THEN secs
       ELSE [secs EXCEPT ![k] = [@ EXCEPT !.issues = Append(@, f.issue),
                                          !.score = @ - f.penalty]]

RECURSIVE ApplyFindings(_, _)
ApplyFindings(secs, fs) ==
    IF fs = <<>> THEN secs
    ELSE ApplyFindings(ApplyFinding(secs, Head(fs)), Tail(fs))

\* the section records before the final clamp
RawSectionAnalysis(fs) == ApplyFindings(InitialSectionAnalysis, fs)

\* the clamp without its lower bound
ClampScoreUpperOnly(score) == IF score > 100 THEN 100 ELSE score

\* Math.max(0, Math.min(100, section.score))
ClampScore(score) == Max(0, Min(100, score))

\* Ensure all section scores are within 0-100 range
FinalSectionAnalysis(fs) ==
    LET raw == RawSectionAnalysis(fs)
    IN [i \in 1..Len(raw) |-> [raw[i] EXCEPT !.score = ClampScore(@)]]

\* totalElements: 1 for the title, 1 for the meta description, then
\* += the length of each node list
TotalElements(d) ==
    1 + 1 + Len(AllImages(d)) + Len(AllHeadings(d)) + Len(AllLinks(d))
    + Len(AllParagraphs(d))

\* the title and meta description units counted only for elements found
AnalyzedElementsFoundOnly(d) ==
    (IF d.title.exists THEN 1 ELSE 0) + (IF d.meta.exists THEN 1 ELSE 0)
    + Cardinality({i \in 1..Len(d.body) :
                      \/ d.body[i].tag \in {"img", "p", "h1", "h2", "h3", "h4", "h5", "h6"}
                      \/ d.body[i].tag = "a" /\ d.body[i].href # NoAttr})

\* analyzedElements: 1 for the title, 1 for the meta description, then
\* ++ in every iteration of the four forEach loops
AnalyzedElements(d) ==
    1 + 1 + Len(AllImages(d)) + Len(AllHeadings(d)) + Len(AllLinks(d))
    + Len(AllParagraphs(d))

\* analyzePageElements(htmlContent, url)
analyzePageElements(d, u) ==
    LET fs == Findings(d)
    IN [status |-> "returned",
        url |-> u,
        totalElements |-> TotalElements(d),
        analyzedElements |-> AnalyzedElements(d),
        elementIssues |-> [i \in 1..Len(fs) |-> fs[i].issue],
        sectionAnalysis |-> FinalSectionAnalysis(fs)]

(***************************************************************************)
(* The helpers of the orchestrator: isValidHtml (html-analyzer.ts) and the *)
(* two score functions (env-config.ts).  The strings they look into are    *)
(* TLA+ strings, searched and lowered character by character.              *)
(***************************************************************************)
\* String.prototype.includes on a JavaScript string
StringIncludes(s, sub) ==
    \E i \in 1..(Len(s) - Len(sub) + 1) : SubSeq(s, i, i + Len(sub) - 1) = sub

LowerChar(c) ==
    CASE c = "A" -> "a" [] c = "B" -> "b" [] c = "C" -> "c" [] c = "D" -> "d"
      [] c = "E" -> "e" [] c = "F" -> "f" [] c = "G" -> "g" [] c = "H" -> "h"
      [] c = "I" -> "i" [] c = "J" -> "j" [] c = "K" -> "k" [] c = "L" -> "l"
      [] c = "M" -> "m" [] c = "N" -> "n" [] c = "O" -> "o" [] c = "P" -> "p"
      [] c = "Q" -> "q" [] c = "R" -> "r" [] c = "S" -> "s" [] c = "T" -> "t"
      [] c = "U" -> "u" [] c = "V" -> "v" [] c = "W" -> "w" [] c = "X" -> "x"
      [] c = "Y" -> "y" [] c = "Z" -> "z" [] OTHER -> c

\* String.prototype.toLowerCase on a JavaScript string
RECURSIVE StringToLowerCase(_)
StringToLowerCase(s) ==
    IF s = "" THEN "" ELSE LowerChar(Head(s)) \o StringToLowerCase(Tail(s))

\* the four markers looked for whatever their case
isValidHtmlIgnoringCase(content) ==
    /\ StringIncludes(StringToLowerCase(content), "<html")
    /\ StringIncludes(StringToLowerCase(content), "<head")
    /\ StringIncludes(StringToLowerCase(content), "<body")
    /\ StringIncludes(StringToLowerCase(content), "</html>")

\* isValidHtml(content)
isValidHtml(content) ==
    /\ StringIncludes(content, "<html")
    /\ StringIncludes(content, "<head")
    /\ StringIncludes(content, "<body")
    /\ StringIncludes(content, "</html>")

\* the penalties of the accessibility score used for the SEO score
SeoPenaltyOfAccessibility(severity) ==
    CASE severity = "high" -> 15
      [] severity = "medium" -> 8
      [] severity = "low" -> 3
      [] OTHER -> 0

\* switch(issue.severity) of calculateSeoScoreFromIssues
SeoPenalty(severity) ==
    CASE severity = "high" -> 10
      [] severity = "medium" -> 5
      [] severity = "low" -> 2
      [] OTHER -> 0

\* issues.forEach(issue => score -= ...), from the score so far
RECURSIVE SeoScoreAfter(_, _)
SeoScoreAfter(score, issues) ==
    IF issues = <<>> THEN score
    ELSE SeoScoreAfter(score - SeoPenalty(Head(issues).severity), Tail(issues))

\* the return without its lower bound
calculateSeoScoreNoFloor(issues) == Min(100, SeoScoreAfter(100, issues))

\* calculateSeoScoreFromIssues(issues)
calculateSeoScoreFromIssues(issues) ==
    Max(0, Min(100, SeoScoreAfter(100, issues)))

AccessibilityKeywords ==
    <<"alt text", "aria", "contrast", "keyboard", "screen reader", "focus",
      "accessibility">>

\* the keywords looked for in the title as it is written
isAccessibilityIssueCaseSensitive(issue) ==
    \E k \in 1..Len(AccessibilityKeywords) :
        StringIncludes(issue.title, AccessibilityKeywords[k])

\* const isAccessibilityIssue = issue.title.toLowerCase().includes(...) || ...
isAccessibilityIssue(issue) ==
    \E k \in 1..Len(AccessibilityKeywords) :
        StringIncludes(StringToLowerCase(issue.title), AccessibilityKeywords[k])

\* switch(issue.severity) of calculateAccessibilityScoreFromIssues
AccessibilityPenalty(severity) ==
    CASE severity = "high" -> 15
      [] severity = "medium" -> 8
      [] severity = "low" -> 3
      [] OTHER -> 0

RECURSIVE AccessibilityScoreAfter(_, _)
AccessibilityScoreAfter(score, issues) ==
    IF issues = <<>> THEN score
    ELSE AccessibilityScoreAfter(
             IF isAccessibilityIssue(Head(issues))
             THEN score - AccessibilityPenalty(Head(issues).severity)
             ELSE score,
             Tail(issues))

\* calculateAccessibilityScoreFromIssues(issues)
calculateAccessibilityScoreFromIssues(issues) ==
    LET score == AccessibilityScoreAfter(100, issues)
        audited == IF score = 100 THEN 90 ELSE score
    IN Max(0, Min(100, audited))

(***************************************************************************)
(* The inputs the analyzers are applied to.  A document is any parsed      *)
(* HTML; the families below are the bounded sets the model draws from,     *)
(* each varying one part of the document while the rest is kept small.     *)
(***************************************************************************)
TitleLengths == {0, 1, 9, 10, 19, 20, 60, 61}
MetaLengths == {0, 49, 50, 69, 70, 160, 161}

Titles ==
    {[exists |-> FALSE, len |-> 0]}
    \cup {[exists |-> TRUE, len |-> l] : l \in TitleLengths}

Metas ==
    {[exists |-> FALSE, hasContent |-> FALSE, len |-> 0],
     [exists |-> TRUE, hasContent |-> FALSE, len |-> 0]}
    \cup {[exists |-> TRUE, hasContent |-> TRUE, len |-> l] : l \in MetaLengths}

Heads ==
    [title : Titles, meta : Metas, viewport : BOOLEAN,
     structured : {"none", "ld+json", "itemscope"}]

\* a head that passes every check, and one that fails every check
GoodHead ==
    [title |-> [exists |-> TRUE, len |-> 20],
     meta |-> [exists |-> TRUE, hasContent |-> TRUE, len |-> 70],
     viewport |-> TRUE, structured |-> "ld+json"]
BadHead ==
    [title |-> [exists |-> FALSE, len |-> 0],
     meta |-> [exists |-> FALSE, hasContent |-> FALSE, len |-> 0],
     viewport |-> FALSE, structured |-> "none"]

MkDoc(head, body) ==
    [title |-> head.title, meta |-> head.meta, viewport |-> head.viewport,
     structured |-> head.structured, body |-> body]

\* reference URLs: omitted, an absolute URL, the base name of an uploaded file
NoUrl == <<>>
SiteUrl == <<"https", "://", "example.com", "/">>
FileUrl == <<"index.html">>
Urls == {NoUrl, SiteUrl, FileUrl}

Hrefs ==
    {<<"#", "top">>, <<"/", "about">>,
     <<"https", "://", "example.com", "/", "about">>,
     <<"http", "://", "other.org">>,
     <<"about.html">>, <<"mailto:", "info@", "example.com">>, <<>>, NoAttr}

LinkTexts ==
    {<<>>, <<" ">>, <<" ", "Click Here", " ">>, <<"read more">>, <<"Home">>,
     <<"Home", " ", "read more">>}

\* elements without a parent yet (placed by BodiesOver)
LandmarkShapes ==
    {Container("header", "", <<>>, 0), Container("div", "banner", <<>>, 0),
     Container("div", "", <<"header">>, 0),
     Container("nav", "", <<>>, 0), Container("div", "navigation", <<>>, 0),
     Container("main", "", <<>>, 0), Container("div", "main", <<>>, 0),
     Container("div", "", <<"content">>, 0),
     Container("aside", "", <<>>, 0), Container("div", "", <<"sidebar">>, 0),
     Container("footer", "", <<>>, 0), Container("div", "contentinfo", <<>>, 0),
     Container("div", "", <<"footer">>, 0),
     Container("div", "", <<>>, 0)}

\* the first choice of every region, and an element that is no landmark
PrimaryShapes ==
    {Container("header", "", <<>>, 0), Container("nav", "", <<>>, 0),
     Container("main", "", <<>>, 0), Container("aside", "", <<>>, 0),
     Container("footer", "", <<>>, 0), Container("div", "", <<>>, 0)}

\* the candidates of one region
RegionShapes ==
    {{Container("header", "", <<>>, 0), Container("div", "banner", <<>>, 0),
      Container("div", "", <<"header">>, 0)},
     {Container("nav", "", <<>>, 0), Container("div", "navigation", <<>>, 0)},
     {Container("main", "", <<>>, 0), Container("div", "main", <<>>, 0),
      Container("div", "", <<"content">>, 0)},
     {Container("aside", "", <<>>, 0), Container("div", "", <<"sidebar">>, 0)},
     {Container("footer", "", <<>>, 0), Container("div", "contentinfo", <<>>, 0),
      Container("div", "", <<"footer">>, 0)}}

\* an image without alt, and two whose own class makes them a landmark
PlainProbe == Img(Null, <<>>, 0)
ClassProbes == {Img(Null, <<"footer">>, 0), Img(Null, <<"header", "logo">>, 0)}

LeafShapes ==
    {Img(Null, <<>>, 0), Img("", <<>>, 0), Img("logo", <<>>, 0),
     Heading(1, 0), Heading(2, 0), Heading(4, 0),
     Anchor(<<"/", "about">>, <<"Home">>, 0),
     Anchor(<<"about.html">>, <<>>, 0),
     Anchor(NoAttr, <<"Home">>, 0),
     Para(300, 0), Para(301, 0)}

HeadingShapes == {Heading(l, 0) : l \in 1..4}

\* the elements still open after the last element of b: the places where
\* the next element in document order can go (0 is the body)
OpenPath(b) ==
    {0} \cup {a \in 1..Len(b) :
                 /\ b[a].tag \in ContainerTags
                 /\ Contains([body |-> b], a, Len(b))}

\* every way to append shape to a body of bs
Extend(bs, shape) ==
    UNION {{Append(b, [shape EXCEPT !.parent = p]) : p \in OpenPath(b)} : b \in bs}

\* the bodies that start with a body of bs and go on with up to n elements
\* drawn from shapes
RECURSIVE Grow(_, _, _)
Grow(bs, shapes, n) ==
    IF n = 0 THEN bs
    ELSE bs \cup Grow(UNION {Extend(bs, sh) : sh \in shapes}, shapes, n - 1)

\* the bodies that place the elements of the sequence shs, in that order
RECURSIVE Place(_, _)
Place(bs, shs) ==
    IF shs = <<>> THEN bs ELSE Place(Extend(bs, Head(shs)), Tail(shs))

\* n copies of an element
Repeat(x, n) == [i \in 1..n |-> x]

HeaderOnly == Place({<<>>}, <<Container("header", "", <<>>, 0)>>)

\* every head, on an empty body and on a body with a header landmark
HeadFamily ==
    {[doc |-> MkDoc(h, b), url |-> SiteUrl] :
        h \in Heads, b \in {<<>>} \cup HeaderOnly}

\* the bodies made of the elements a, b and c, in every order in which a
\* precedes b, and every nesting
Arrange(a, b, c) ==
    Place({<<>>}, <<a, b, c>>) \cup Place({<<>>}, <<a, c, b>>)
    \cup Place({<<>>}, <<c, a, b>>)

\* two landmarks and one image without alt, in every order and nesting:
\* the first choices of two regions, two candidates of one region, and one
\* landmark with an image that is a landmark by its own class
SectionBodies ==
    UNION {Arrange(c1, c2, PlainProbe) : c1 \in PrimaryShapes, c2 \in PrimaryShapes}
    \cup UNION {UNION {Arrange(c1, c2, PlainProbe) : c1 \in r, c2 \in r} :
                  r \in RegionShapes}
    \cup UNION {Arrange(c, pr, PlainProbe) \cup Arrange(pr, c, PlainProbe) :
                  c \in LandmarkShapes, pr \in ClassProbes}

SectionFamily ==
    {[doc |-> MkDoc(GoodHead, b), url |-> SiteUrl] : b \in SectionBodies}

\* a header landmark and up to MaxLeaves content elements in or after it
LeafFamily ==
    {[doc |-> MkDoc(h, b), url |-> NoUrl] :
        h \in {GoodHead, BadHead}, b \in Grow(HeaderOnly, LeafShapes, MaxLeaves)}

\* a header landmark and up to MaxHeadings headings in or after it
HeadingFamily ==
    {[doc |-> MkDoc(GoodHead, b), url |-> NoUrl] :
        b \in Grow(HeaderOnly, HeadingShapes, MaxHeadings)}

\* up to MaxLeaves links with every href, under every reference URL, and
\* one link with every text
LinkFamily ==
    {[doc |-> MkDoc(GoodHead, b), url |-> u] :
        u \in Urls,
        b \in Grow({<<>>}, {Anchor(h, <<"Home">>, 0) : h \in Hrefs}, MaxLeaves)}
    \cup {[doc |-> MkDoc(GoodHead, <<Anchor(<<"/", "about">>, t, 0)>>), url |-> NoUrl] :
            t \in LinkTexts}

\* n H1 headings and m images without alt inside the header landmark, and
\* after it k images without alt outside every landmark
RepeatFamily ==
    {[doc |-> MkDoc(h, <<Container("header", "", <<>>, 0)>>
                       \o Repeat(Heading(1, 1), n)
                       \o Repeat(Img(Null, <<>>, 1), m)
                       \o Repeat(Img(Null, <<>>, 0), k)),
      url |-> NoUrl] : h \in {GoodHead, BadHead}, n \in 0..MaxRepeat,
                       m \in 0..MaxRepeat, k \in {0, 2 * MaxRepeat + 1}}

\* a page without title and meta description, with one H1 and one image
\* without alt attribute in either order, with and without viewport tag and
\* structured data
ScenarioFamily ==
    {[doc |-> MkDoc([BadHead EXCEPT !.viewport = v, !.structured = sd], b),
      url |-> u] :
        v \in BOOLEAN, sd \in {"none", "ld+json", "itemscope"}, u \in Urls,
        b \in {<<Heading(1, 0), Img(Null, <<>>, 0)>>,
               <<Img(Null, <<>>, 0), Heading(1, 0)>>}}

\* pages on which the issues of several checks accumulate: no, one or two
\* H1, an H2, an H3 or both below no H1, with and without an image that has
\* no alt attribute and a link that has no text, under both heads
AccumulationFamily ==
    {[doc |-> MkDoc(h, hs \o is \o ls), url |-> SiteUrl] :
        h \in {GoodHead, BadHead},
        hs \in {<<>>, <<Heading(1, 0)>>, <<Heading(1, 0), Heading(1, 0)>>,
                <<Heading(2, 0)>>, <<Heading(3, 0)>>,
                <<Heading(2, 0), Heading(3, 0)>>},
        is \in {<<>>, <<Img(Null, <<>>, 0)>>},
        ls \in {<<>>, <<Anchor(<<"/", "about">>, <<>>, 0)>>}}

Inputs ==
    HeadFamily \cup SectionFamily \cup LeafFamily \cup HeadingFamily
    \cup LinkFamily \cup RepeatFamily \cup ScenarioFamily
    \cup AccumulationFamily

(***************************************************************************)
(* The inputs the helpers are applied to: issue lists of every severity    *)
(* with titles that hold an accessibility keyword (in lower case, in upper *)
(* case, inside a longer word) or none, and texts put together from        *)
(* fragments of markup in every order.                                     *)
(***************************************************************************)
Severities == {"high", "medium", "low"}

IssueTitles ==
    {"Missing page title", "Images missing alt text", "Keyboard FOCUS lost",
     "Variable fonts"}

IssueTemplates == [severity : Severities, title : IssueTitles]

\* the issues of a list carry the ids 1, 2, ... as the analyzers give them
NumberIssues(templates) ==
    [i \in 1..Len(templates) |->
        [id |-> i, severity |-> templates[i].severity, title |-> templates[i].title]]

SeqsUpTo(S, n) == UNION {[1..k -> S] : k \in 0..n}

IssueLists ==
    {NumberIssues(ts) : ts \in SeqsUpTo(IssueTemplates, MaxIssues)}
    \cup {NumberIssues(Repeat(t, n)) : t \in IssueTemplates, n \in 0..MaxRun}

Fragments == {"<html>", "<head>", "<body>", "</html>", "<HTML>", "<", "html lang=en>"}

RECURSIVE Concat(_)
Concat(fs) == IF fs = <<>> THEN "" ELSE Head(fs) \o Concat(Tail(fs))

Texts == {Concat(fs) : fs \in SeqsUpTo(Fragments, MaxFragments)}

HelperInputs ==
    {[issues |-> i, content |-> ""] : i \in IssueLists}
    \cup {[issues |-> <<>>, content |-> t] : t \in Texts}

(***************************************************************************)
(* The orchestrator: analyzeSeo and the functions it calls (env-config.ts, *)
(* ai-suggestions).  A function that awaits a collaborator or draws random *)
(* numbers has several possible outcomes: it is modelled by the set of     *)
(* them.  An outcome is the record the promise resolves with, and the      *)
(* calls of the analyzers and helpers made on the way.  The timestamp of a *)
(* result and the texts of its suggestions are left out: a result tells    *)
(* which function produced its suggestions.                                *)
(***************************************************************************)
\* Math.random(), in tenths
RandomDraws == {0, 8}

\* Math.round(sum / 4) of an integer sum
RoundQuarter(sum) == (sum + 2) \div 4

\* path.basename(filePath)
Basename(filePath) == <<filePath[Len(filePath)]>>

\* String.prototype.endsWith
StringEndsWith(s, suffix) ==
    /\ Len(s) >= Len(suffix)
    /\ SubSeq(s, Len(s) - Len(suffix) + 1, Len(s)) = suffix

NoCalls ==
    [htmlResult |-> NoResult, elemResult |-> NoResult, validHtml |-> NoResult,
     seoScore |-> NoResult, accessibilityScore |-> NoResult]

Outcomes(results, calls) == {[result |-> r, calls |-> calls] : r \in results}

\* ENV.GEMINI_API_KEY is a non-empty literal
GeminiApiKeySet == TRUE

\* the catch left out: the answer of the model whatever the service does
generateAiSuggestionsUncaught(ai) == [by |-> "generateAiSuggestions"]

\* generateAiSuggestions(url, issues, metadata): the answer of the model,
\* or the rule-based suggestions without key and when the service fails
generateAiSuggestions(ai) ==
    IF ~GeminiApiKeySet THEN [by |-> "generateFallbackSuggestions"]
    ELSE IF ai = "throws" THEN [by |-> "generateFallbackSuggestions"]
    ELSE [by |-> "generateAiSuggestions"]

commonIssues ==
    <<[id |-> 1, severity |-> "high", title |-> "Missing meta description"],
      [id |-> 2, severity |-> "medium", title |-> "Images missing alt text"],
      [id |-> 3, severity |-> "low", title |-> "Heading hierarchy not ideal"],
      [id |-> 4, severity |-> "high", title |-> "Slow page load speed"],
      [id |-> 5, severity |-> "medium", title |-> "Mobile responsiveness issues"]>>

\* [...commonIssues].sort(() => 0.5 - Math.random()).slice(0, numIssues):
\* any numIssues of the issues in any order
ShuffledSlices(numIssues) ==
    {[i \in 1..numIssues |-> commonIssues[pick[i]]] :
        pick \in {p \in [1..numIssues -> 1..Len(commonIssues)] :
                     \A i, j \in 1..numIssues : i # j => p[i] # p[j]}}

\* generateMockResults(url, type)
generateMockResults(u, t) ==
    UNION {
        LET overall == (r0 * 36) \div 10 + 60
        IN {[status |-> "resolved", url |-> u, type |-> t, overall |-> overall,
             subscores |->
                 [performance |-> Min(100, overall + 2 * r1 - 10),
                  seo |-> Min(100, overall + (15 * r2) \div 10 - 5),
                  accessibility |-> Min(100, overall + r3 - 15),
                  bestPractices |-> Min(100, overall + (15 * r4) \div 10 - 5)],
             issues |-> slice,
             suggestions |-> [by |-> "generateMockResults"]] :
                slice \in ShuffledSlices((r5 * 3) \div 10 + 1)} :
        r0 \in RandomDraws, r1 \in RandomDraws, r2 \in RandomDraws,
        r3 \in RandomDraws, r4 \in RandomDraws, r5 \in RandomDraws}

\* analyzeHtmlFile(filePath)
analyzeHtmlFile(filePath, e, d, fileText) ==
    IF e.fileRead = "throws"
    THEN Outcomes(generateMockResults(filePath, "file"), NoCalls)
    ELSE IF ~isValidHtml(fileText)
    THEN Outcomes(generateMockResults(filePath, "file"),
                  [NoCalls EXCEPT !.validHtml = Returned(FALSE)])
    ELSE LET htmlAnalysis == analyzeHtmlContent(d, Basename(filePath))
         IN IF htmlAnalysis = Threw
            THEN Outcomes(generateMockResults(filePath, "file"),
                          [NoCalls EXCEPT !.validHtml = Returned(TRUE),
                                          !.htmlResult = Threw])
            ELSE LET seo == calculateSeoScoreFromIssues(htmlAnalysis.issues)
                     accessibility ==
                         calculateAccessibilityScoreFromIssues(htmlAnalysis.issues)
                     performanceScore == 80
                 IN Outcomes(
                        {[status |-> "resolved",
                          url |-> Basename(filePath),
                          type |-> "file",
                          overall |-> RoundQuarter(seo + performanceScore
                                         + accessibility + (65 + 2 * r)),
                          subscores |-> [performance |-> performanceScore,
                                         seo |-> seo,
                                         accessibility |-> accessibility,
                                         bestPractices |-> 65 + 2 * r],
                          issues |-> htmlAnalysis.issues,
                          suggestions |-> generateAiSuggestions(e.ai),
                          metadata |-> [title |-> htmlAnalysis.title,
                                        description |-> htmlAnalysis.description]] :
                            r \in RandomDraws},
                        [NoCalls EXCEPT !.validHtml = Returned(TRUE),
                                        !.htmlResult = htmlAnalysis,
                                        !.seoScore = Returned(seo),
                                        !.accessibilityScore = Returned(accessibility)])

\* a token of a URL that the class [\w-]+ matches
IsWord(tok) == tok \notin {"/", "://", ".", "?", "#", ""}

\* repoUrl.match(/github\.com\/([\w-]+)\/([\w-]+)/)
MatchGithubUrl(repoUrl) ==
    \E i \in 1..Len(repoUrl) :
        /\ i + 4 <= Len(repoUrl)
        /\ repoUrl[i] = "github.com"
        /\ repoUrl[i + 1] = "/" /\ IsWord(repoUrl[i + 2])
        /\ repoUrl[i + 3] = "/" /\ IsWord(repoUrl[i + 4])

\* the else-if chain over the items of the repository listing
IsHtmlItem(name) == StringEndsWith(StringToLowerCase(name), ".html")
IsReadmeItem(name) ==
    ~IsHtmlItem(name) /\ StringIncludes(StringToLowerCase(name), "readme")
IsPackageJsonItem(name) ==
    ~IsHtmlItem(name) /\ ~IsReadmeItem(name) /\ name = "package.json"

HasItem(contents, kind) ==
    \E i \in 1..Len(contents) :
        CASE kind = "html" -> IsHtmlItem(contents[i])
          [] kind = "readme" -> IsReadmeItem(contents[i])
          [] kind = "package" -> IsPackageJsonItem(contents[i])

\* the generic issues of a repository without HTML file
MarkdownIssues(described) ==
    <<[id |-> 1, severity |-> "medium", title |-> "Repository lacks HTML content"],
      [id |-> 2, severity |-> "medium", title |-> "README structure needs improvement"]>>
    \o (IF described
        THEN <<[id |-> 3, severity |-> "low", title |-> "Project description available"]>>
        ELSE <<>>)

\* Calculate scores, and the record returned, of analyzeGithubRepo
GithubResults(repoUrl, e, issues, metadata) ==
    LET seo == calculateSeoScoreFromIssues(issues)
        accessibility == calculateAccessibilityScoreFromIssues(issues)
    IN {[status |-> "resolved",
         url |-> repoUrl,
         type |-> "github",
         overall |-> RoundQuarter(seo + (75 + (15 * r2) \div 10)
                                  + accessibility + (60 + 2 * r1)),
         subscores |-> [performance |-> 75 + (15 * r2) \div 10,
                        seo |-> seo,
                        accessibility |-> accessibility,
                        bestPractices |-> 60 + 2 * r1],
         issues |-> issues,
         suggestions |-> generateAiSuggestions(e.ai),
         metadata |-> metadata] : r1 \in RandomDraws, r2 \in RandomDraws}

\* analyzeGithubRepo(repoUrl)
analyzeGithubRepo(repoUrl, e, d) ==
    LET mock == generateMockResults(repoUrl, "github")
    IN IF ~MatchGithubUrl(repoUrl) THEN Outcomes(mock, NoCalls)
       ELSE IF e.github = Threw THEN Outcomes(mock, NoCalls)
       ELSE IF HasItem(e.github.contents, "html")
       THEN IF e.download = "throws" THEN Outcomes(mock, NoCalls)
            ELSE LET htmlAnalysis == analyzeHtmlContent(d, repoUrl)
                 IN IF htmlAnalysis = Threw
                    THEN Outcomes(mock, [NoCalls EXCEPT !.htmlResult = Threw])
                    ELSE Outcomes(
                             GithubResults(repoUrl, e, htmlAnalysis.issues,
                                 [title |-> htmlAnalysis.title,
                                  description |-> htmlAnalysis.description]),
                             [NoCalls EXCEPT
                                 !.htmlResult = htmlAnalysis,
                                 !.seoScore = Returned(
                                     calculateSeoScoreFromIssues(htmlAnalysis.issues)),
                                 !.accessibilityScore = Returned(
                                     calculateAccessibilityScoreFromIssues(
                                         htmlAnalysis.issues))])
       ELSE IF HasItem(e.github.contents, "readme")
       THEN IF e.download = "throws" THEN Outcomes(mock, NoCalls)
            ELSE IF HasItem(e.github.contents, "package") /\ e.package = "throws"
            THEN Outcomes(mock, NoCalls)
            ELSE LET described ==
                         HasItem(e.github.contents, "package")
                         /\ e.package = "described"
                     issues == MarkdownIssues(described)
                 IN Outcomes(
                        GithubResults(repoUrl, e, issues,
                            [title |-> 0, description |-> IF described THEN 1 ELSE 0]),
                        [NoCalls EXCEPT
                            !.seoScore = Returned(calculateSeoScoreFromIssues(issues)),
                            !.accessibilityScore = Returned(
                                calculateAccessibilityScoreFromIssues(issues))])
       ELSE Outcomes(mock, NoCalls)

\* data.lighthouseResult?.categories?.[name]?.score * 100 || 0, the score
\* in hundredths; a category the response lacks gives NaN || 0
CategoryScore(data, name) ==
    IF name \in data.missing THEN 0 ELSE data.categories[name]

PageSpeedIssueTitle(audit) ==
    CASE audit = "document-title" -> "Missing or inadequate title"
      [] audit = "image-alt" -> "Images missing alt text"
      [] audit = "tap-targets" -> "Tap targets too small"
      [] audit = "render-blocking-resources" -> "Render-blocking resources"

PageSpeedIssueSeverity(audit) ==
    IF audit = "document-title" THEN "high" ELSE "medium"

PageSpeedAudits ==
    <<"document-title", "image-alt", "tap-targets", "render-blocking-resources">>

\* extractIssuesFromPageSpeed(data)
extractIssuesFromPageSpeed(data) ==
    LET failed == SelectSeq(PageSpeedAudits, LAMBDA a : a \in data.failedAudits)
    IN IF failed = <<>>
       THEN <<[id |-> 1, severity |-> "low",
               title |-> "Consider improving heading structure"]>>
       ELSE [i \in 1..Len(failed) |->
                [id |-> i, severity |-> PageSpeedIssueSeverity(failed[i]),
                 title |-> PageSpeedIssueTitle(failed[i])]]

\* analyzeWebUrl(url)
analyzeWebUrl(u, e, d) ==
    IF e.pageSpeed = Threw
    THEN Outcomes(generateMockResults(u, "url"), NoCalls)
    ELSE LET data == e.pageSpeed
             performance == CategoryScore(data, "performance")
             seo == CategoryScore(data, "seo")
             accessibility == CategoryScore(data, "accessibility")
             bestPractices == CategoryScore(data, "bestPractices")
             overall == RoundQuarter(performance + seo + accessibility + bestPractices)
             subscores == [performance |-> performance, seo |-> seo,
                           accessibility |-> accessibility,
                           bestPractices |-> bestPractices]
             issues == extractIssuesFromPageSpeed(data)
             metadata == [title |-> data.title, description |-> data.description]
         IN IF e.pageFetch = "throws"
            THEN Outcomes({[status |-> "resolved", url |-> u, type |-> "url",
                            overall |-> overall, subscores |-> subscores,
                            issues |-> issues,
                            suggestions |-> [by |-> "extractSuggestionsFromPageSpeed"],
                            metadata |-> metadata]},
                          NoCalls)
            ELSE LET elementAnalysis == analyzePageElements(d, u)
                 IN Outcomes({[status |-> "resolved", url |-> u, type |-> "url",
                               overall |-> overall, subscores |-> subscores,
                               issues |-> issues,
                               suggestions |-> generateAiSuggestions(e.ai),
                               metadata |-> metadata,
                               elementAnalysis |-> elementAnalysis]},
                             [NoCalls EXCEPT !.elemResult = elementAnalysis])

\* analyzeSeo(url, type)
analyzeSeo(u, t, e, d, fileText) ==
    CASE t = "url" -> analyzeWebUrl(u, e, d)
      [] t = "github" -> analyzeGithubRepo(u, e, d)
      [] t = "file" -> analyzeHtmlFile(u, e, d, fileText)
      [] OTHER -> Outcomes(generateMockResults(u, t), NoCalls)

(***************************************************************************)
(* The requests analyzeSeo is given and the worlds it runs in: the page    *)
(* behind the url (its text and the document the parser builds from it),   *)
(* and how each collaborator answers.  The collaborators a request does    *)
(* not reach answer as in DefaultEnv.                                      *)
(***************************************************************************)
FilePath == <<"/tmp/uploads/", "index.html">>
GithubUrl == <<"https", "://", "github.com", "/", "owner", "/", "repo">>

Pages ==
    {[text |-> "<html><head><meta name=viewport content=width=device-width>"
               \o "</head><body><h1>Welcome</h1><img src=a.png></body></html>",
      doc |-> MkDoc([BadHead EXCEPT !.viewport = TRUE],
                    <<Heading(1, 0), Img(Null, <<>>, 0)>>)],
     [text |-> "<html><head><title>Example Domain pages</title></head><body>"
               \o "<h1>Home</h1><a href=about.html>About</a></body></html>",
      doc |-> MkDoc([BadHead EXCEPT !.title = [exists |-> TRUE, len |-> 20]],
                    <<Heading(1, 0), Anchor(<<"about.html">>, <<"About">>, 0)>>)],
     [text |-> "<h1>Welcome</h1><p>Hello</p>",
      doc |-> MkDoc(BadHead, <<Heading(1, 0), Para(5, 0)>>)],
     [text |-> "<HTML><HEAD></HEAD><BODY><H1>Welcome</H1></BODY></HTML>",
      doc |-> MkDoc(BadHead, <<Heading(1, 0)>>)]}

PageSpeedData ==
    {[categories |-> [performance |-> 90, seo |-> 100, accessibility |-> 95,
                      bestPractices |-> 100],
      missing |-> {},
      failedAudits |-> {}, title |-> "Example Domain", description |-> ""],
     [categories |-> [performance |-> 45, seo |-> 80, accessibility |-> 70,
                      bestPractices |-> 0],
      missing |-> {"bestPractices"},
      failedAudits |-> {"document-title", "image-alt"},
      title |-> "", description |-> ""],
     [categories |-> [performance |-> 0, seo |-> 0, accessibility |-> 0,
                      bestPractices |-> 0],
      missing |-> {"performance", "seo", "accessibility", "bestPractices"},
      failedAudits |-> {}, title |-> "", description |-> ""]}

Answers == {"ok", "throws"}

DefaultEnv ==
    [fileRead |-> "ok", pageSpeed |-> Threw, pageFetch |-> "ok",
     github |-> Threw, download |-> "ok", package |-> "none", ai |-> "ok"]

\* the page of the worlds in which no page is looked at
SomePage == CHOOSE p \in Pages : Len(p.doc.body) = 1

World(u, t, p, e) == [url |-> u, type |-> t, page |-> p, env |-> e]

\* the PageSpeed API fails; it answers and the fetch of the page fails; both
\* answer, for every page and both answers of the AI service
UrlWorlds ==
    {World(SiteUrl, "url", SomePage, DefaultEnv)}
    \cup {World(SiteUrl, "url", SomePage,
                [DefaultEnv EXCEPT !.pageSpeed = ps, !.pageFetch = "throws"]) :
             ps \in PageSpeedData}
    \cup {World(SiteUrl, "url", p, [DefaultEnv EXCEPT !.pageSpeed = ps, !.ai = a]) :
             p \in Pages, ps \in PageSpeedData, a \in Answers}

\* the file cannot be read; it is read, for every page and both answers of
\* the AI service
FileWorlds ==
    {World(FilePath, "file", SomePage, [DefaultEnv EXCEPT !.fileRead = "throws"])}
    \cup {World(FilePath, "file", p, [DefaultEnv EXCEPT !.ai = a]) :
             p \in Pages, a \in Answers}

Listing(c) == [status |-> "returned", contents |-> c]

\* no repository in the url; the GitHub API fails; a listing without
\* suitable file; a download fails; an HTML file, for every page; a README,
\* with and without package.json
GithubWorlds ==
    {World(SiteUrl, "github", SomePage, DefaultEnv),
     World(GithubUrl, "github", SomePage, DefaultEnv)}
    \cup {World(GithubUrl, "github", SomePage, [DefaultEnv EXCEPT !.github = g]) :
             g \in {Listing(<<>>), Listing(<<"package.json">>)}}
    \cup {World(GithubUrl, "github", SomePage,
                [DefaultEnv EXCEPT !.github = g, !.download = "throws"]) :
             g \in {Listing(<<"README.md">>), Listing(<<"Index.HTML", "README.md">>)}}
    \cup {World(GithubUrl, "github", p,
                [DefaultEnv EXCEPT !.github = Listing(<<"Index.HTML", "README.md">>),
                                   !.ai = a]) :
             p \in Pages, a \in Answers}
    \cup {World(GithubUrl, "github", SomePage,
                [DefaultEnv EXCEPT !.github = Listing(<<"README.md">>), !.ai = a]) :
             a \in Answers}
    \cup {World(GithubUrl, "github", SomePage,
                [DefaultEnv EXCEPT !.github = Listing(<<"README.md", "package.json">>),
                                   !.package = pk, !.ai = a]) :
             pk \in {"none", "described", "throws"}, a \in Answers}

\* a type analyzeSeo does not know
OtherWorlds == {World(SiteUrl, "sitemap", SomePage, DefaultEnv)}

SeoInputs == UrlWorlds \cup FileWorlds \cup GithubWorlds \cup OtherWorlds

(***************************************************************************)
(* The analyze route (src/unnamed/part_003): POST and GET handlers over    *)
(* one module-level cache.  A handler runs without interruption up to its  *)
(* await of analyzeSeo and again from there to its return; other requests  *)
(* and the clock move in between.                                          *)
(***************************************************************************)
\* most requests the route receives in one behaviour
MaxRequests == 2
\* most quarters of an hour the clock advances in one behaviour
MaxTicks == 3

\* the clock advances in steps of a quarter of an hour
QuarterHour == 15 * 60 * 1000

CACHE_TTL == 30 * 60 * 1000

\* the freshness test with the boundary on the wrong side
IsFreshInclusive(cachedResult, time) ==
    time - cachedResult.timestamp <= CACHE_TTL

\* (Date.now() - cachedResult.timestamp) < CACHE_TTL
IsFresh(cachedResult, time) ==
    time - cachedResult.timestamp < CACHE_TTL

\* !url: the parameter is absent or the empty string
IsFalsy(u) == u = NoAttr \/ u = <<>>

\* const { url, type = "url" } = body
PostType(t) == IF t = Null THEN "url" ELSE t

\* searchParams.get("type") || "url"
GetType(t) == IF t = Null \/ t = "" THEN "url" ELSE t

\* `${type}:${url}`
CacheKey(t, u) == <<t, ":">> \o u

\* the checks of every type's url as if it were of type "url"
ValidationErrorAnyType(u, t) ==
    IF IsFalsy(u) THEN "URL is required"
    ELSE IF ~ParseURL(u).ok THEN "Invalid URL format"
    ELSE Null

\* the two checks before the cache is looked at: the error to answer with,
\* or Null
ValidationError(u, t) ==
    IF IsFalsy(u) THEN "URL is required"
    ELSE IF t = "url" /\ ~ParseURL(u).ok THEN "Invalid URL format"
    ELSE Null

\* NextResponse.json({ error }, { status })
ErrorResponse(status, error) == [status |-> status, body |-> [error |-> error]]

\* NextResponse.json(data)
JsonResponse(data) == [status |-> 200, body |-> data]

\* no response sent yet
NoResponse == [status |-> 0, body |-> NoResult]

\* cache.set(cacheKey, entry)
CacheSet(entries, key, entry) ==
    [k \in DOMAIN entries \cup {key} |-> IF k = key THEN entry ELSE entries[k]]

\* the request a handler was given and how far it has come:
\*   parsed   : its parameters could be read
\*   analysis : the position of its call in analyses, 0 when it made none
\*   pc       : "awaiting" analyzeSeo, or "responded"
Request(method, u, t, parsed, analysis, pc, response) ==
    [method |-> method, url |-> u, type |-> t, parsed |-> parsed,
     analysis |-> analysis, pc |-> pc, response |-> response]

\* the handler from its first line to the await of analyzeSeo, or to the
\* return before it; parsed is FALSE when request.json() rejects
Receive(method, u, t, parsed) ==
    LET error == ValidationError(u, t)
        cacheKey == CacheKey(t, u)
    IN IF ~parsed
       THEN /\ requests' = Append(requests,
                Request(method, u, t, parsed, 0, "responded",
                        ErrorResponse(500, "Failed to analyze SEO")))
            /\ UNCHANGED <<cache, analyses>>
       ELSE IF error # Null
       THEN /\ requests' = Append(requests,
                Request(method, u, t, parsed, 0, "responded",
                        ErrorResponse(400, error)))
            /\ UNCHANGED <<cache, analyses>>
       ELSE IF cacheKey \in DOMAIN cache /\ IsFresh(cache[cacheKey], now)
       THEN /\ requests' = Append(requests,
                Request(method, u, t, parsed, 0, "responded",
                        JsonResponse(cache[cacheKey].data)))
            /\ UNCHANGED <<cache, analyses>>
       ELSE /\ analyses' = Append(analyses, [url |-> u, type |-> t, at |-> now])
            /\ requests' = Append(requests,
                Request(method, u, t, parsed, Len(analyses) + 1, "awaiting",
                        NoResponse))
            /\ UNCHANGED cache

\* the world the route's analyses run in: the PageSpeed API answers with
\* full scores, files are read and hold a valid page, the AI service answers
RoutePage ==
    CHOOSE p \in Pages :
        isValidHtml(p.text) /\ analyzeHtmlContent(p.doc, Basename(FilePath)) # Threw

RouteEnv ==
    [DefaultEnv EXCEPT
        !.pageSpeed = CHOOSE data \in PageSpeedData : data.missing = {}]

\* what the clients of the route send: no url; an empty url; a URL with and
\* without type; a file path as a URL and as a file
RouteInputs ==
    {[url |-> NoAttr, type |-> Null],
     [url |-> <<>>, type |-> "file"],
     [url |-> SiteUrl, type |-> Null],
     [url |-> SiteUrl, type |-> "url"],
     [url |-> FilePath, type |-> "url"],
     [url |-> FilePath, type |-> "file"]}

\* what `await analyzeSeo(url, type)` can resolve with, for every request
\* that passes the checks
RouteResults ==
    {[url |-> in.url, type |-> GetType(in.type),
      results |-> {out.result :
                     out \in analyzeSeo(in.url, GetType(in.type), RouteEnv,
                                        RoutePage.doc, RoutePage.text)}] :
        in \in {i \in RouteInputs : ValidationError(i.url, GetType(i.type)) = Null}}

ResultsOf(u, t) ==
    (CHOOSE call \in RouteResults : call.url = u /\ call.type = t).results

\* the handler from the await of analyzeSeo to its return
Resume(i, results) ==
    LET request == requests[i]
        cacheKey == CacheKey(request.type, request.url)
    IN /\ cache' = CacheSet(cache, cacheKey, [data |-> results, timestamp |-> now])
       /\ requests' = [requests EXCEPT ![i].pc = "responded",
                                       ![i].response = JsonResponse(results)]
       /\ UNCHANGED analyses

(***************************************************************************)
(* generateFallbackSuggestions (ai-suggestions, src/unnamed/part_000): the *)
(* rule-based suggestions used when the AI service fails.  The texts are   *)
(* the source's, with the arrows of the heading text written "->".         *)
(***************************************************************************)
\* Array.prototype.includes
SeqIncludes(list, x) == \E i \in 1..Len(list) : list[i] = x

\* the body of issues.forEach: the suggestions pushed for one issue
IssueSuggestions(issue) ==
    (IF StringIncludes(issue.title, "meta description")
     THEN <<"Write compelling meta descriptions (150-160 characters) that include keywords and a call to action">>
     ELSE <<>>)
    \o (IF StringIncludes(issue.title, "alt text")
        THEN <<"Add descriptive alt text to all images that includes relevant keywords while accurately describing the image">>
        ELSE <<>>)
    \o (IF StringIncludes(issue.title, "heading")
        THEN <<"Restructure your headings to follow a logical hierarchy (H1 -> H2 -> H3) and include target keywords">>
        ELSE <<>>)
    \o (IF StringIncludes(issue.title, "page load")
        THEN <<"Optimize images, minify CSS/JS, and leverage browser caching to improve page load speed">>
        ELSE <<>>)
    \o (IF StringIncludes(issue.title, "mobile")
        THEN <<"Improve mobile responsiveness with a mobile-first design approach and test across multiple devices">>
        ELSE <<>>)

\* issues.forEach(...)
RECURSIVE IssueSpecificSuggestions(_)
IssueSpecificSuggestions(issues) ==
    IF issues = <<>> THEN <<>>
    ELSE IssueSuggestions(Head(issues)) \o IssueSpecificSuggestions(Tail(issues))

generalSuggestions ==
    <<"Implement schema markup (structured data) to help search engines understand your content better",
      "Create a comprehensive XML sitemap and submit it to Google Search Console",
      "Improve internal linking structure to help search engines discover and rank your important pages",
      "Add canonical tags to prevent duplicate content issues",
      "Create more in-depth content that thoroughly addresses user intent",
      "Optimize your title tags to include primary keywords near the beginning",
      "Secure your website with HTTPS if not already implemented">>

\* Math.floor(Math.random() * generalSuggestions.length)
RandomIndexes == 0..(Len(generalSuggestions) - 1)

\* the push without the test before it
PushAlways(list, suggestion) == Append(list, suggestion)

\* if (!suggestions.includes(suggestion)) suggestions.push(suggestion)
PushIfNew(list, suggestion) ==
    IF ~SeqIncludes(list, suggestion) THEN Append(list, suggestion) ELSE list

\* the condition of the while loop
NeedsMore(list) == Len(list) < 4

\* suggestions.slice(0, 6)
SliceSix(list) == SubSeq(list, 1, Min(6, Len(list)))

\* the issue lists generateFallbackSuggestions is given: titles with each
\* keyword, with two keywords, with a keyword in another case and with none
FallbackTitles ==
    {"Missing meta description", "Images missing alt text", "Missing H1 heading",
     "Slow page load speed", "Poor mobile page load",
     "Mobile responsiveness issues", "Missing page title"}

FallbackTemplates == [severity : {"medium"}, title : FallbackTitles]

FallbackIssueLists ==
    {NumberIssues(ts) : ts \in SeqsUpTo(FallbackTemplates, MaxIssues)}
    \cup {NumberIssues(Repeat(t, n)) : t \in FallbackTemplates, n \in 0..MaxRun}

\* no call of an analyzer
AnalyzersIdle ==
    /\ doc = Null
    /\ url = NoUrl
    /\ htmlResult = NoResult
    /\ htmlPrev = NoResult
    /\ elemResult = NoResult
    /\ elemPrev = NoResult

\* no call of a score function or of isValidHtml, no call of analyzeSeo
HelpersIdle ==
    /\ issueList = <<>>
    /\ htmlContent = ""
    /\ seoScore = NoResult
    /\ accessibilityScore = NoResult
    /\ validHtml = NoResult

SeoIdle ==
    /\ type = Null
    /\ env = Null
    /\ result = NoResult

\* no request to the analyze route
RouteIdle ==
    /\ cache = <<>>
    /\ now = 0
    /\ requests = <<>>
    /\ analyses = <<>>

\* no call of generateFallbackSuggestions
FallbackIdle ==
    /\ suggestions = <<>>
    /\ fallbackPc = "idle"

(***************************************************************************)
(* The state machine: an input is chosen, and the two analyzers are called *)
(* on it, in any order and any number of times.  Each call runs to its end *)
(* (the analyzers are synchronous), so a call is one step.                 *)
(***************************************************************************)
Init ==
    /\ \E in \in Inputs : doc = in.doc /\ url = in.url
    /\ htmlResult = NoResult
    /\ htmlPrev = NoResult
    /\ elemResult = NoResult
    /\ elemPrev = NoResult
    /\ HelpersIdle
    /\ SeoIdle
    /\ RouteIdle
    /\ FallbackIdle

AnalyzeHtmlContent ==
    /\ htmlResult' = analyzeHtmlContent(doc, url)
    /\ htmlPrev' = htmlResult
    /\ UNCHANGED <<doc, url, elemResult, elemPrev, helperVars, seoVars,
                   routeVars, fallbackVars>>

AnalyzePageElements ==
    /\ elemResult' = analyzePageElements(doc, url)
    /\ elemPrev' = elemResult
    /\ UNCHANGED <<doc, url, htmlResult, htmlPrev, helperVars, seoVars,
                   routeVars, fallbackVars>>

Next == AnalyzeHtmlContent \/ AnalyzePageElements

Spec == Init /\ [][Next]_vars

(***************************************************************************)
(* The helpers as a state machine of their own: an issue list and a text   *)
(* are chosen, and the three functions are called on them, in any order.   *)
(***************************************************************************)
InitHelpers ==
    /\ \E in \in HelperInputs : issueList = in.issues /\ htmlContent = in.content
    /\ seoScore = NoResult
    /\ accessibilityScore = NoResult
    /\ validHtml = NoResult
    /\ AnalyzersIdle
    /\ SeoIdle
    /\ RouteIdle
    /\ FallbackIdle

CalculateSeoScoreFromIssues ==
    /\ seoScore' = Returned(calculateSeoScoreFromIssues(issueList))
    /\ UNCHANGED <<issueList, htmlContent, accessibilityScore, validHtml,
                   analyzerVars, seoVars, routeVars, fallbackVars>>

CalculateAccessibilityScoreFromIssues ==
    /\ accessibilityScore' =
           Returned(calculateAccessibilityScoreFromIssues(issueList))
    /\ UNCHANGED <<issueList, htmlContent, seoScore, validHtml,
                   analyzerVars, seoVars, routeVars, fallbackVars>>

IsValidHtml ==
    /\ validHtml' = Returned(isValidHtml(htmlContent))
    /\ UNCHANGED <<issueList, htmlContent, seoScore, accessibilityScore,
                   analyzerVars, seoVars, routeVars, fallbackVars>>

NextHelpers ==
    \/ CalculateSeoScoreFromIssues
    \/ CalculateAccessibilityScoreFromIssues
    \/ IsValidHtml

SpecHelpers == InitHelpers /\ [][NextHelpers]_vars

(***************************************************************************)
(* The orchestrator as a state machine: a request and a world are chosen,  *)
(* and analyzeSeo is called on it, once.  A call is one step: nothing else *)
(* runs while it awaits, and it leaves nothing behind but the value it     *)
(* resolves with.                                                          *)
(* The analyzer and helper variables hold what the calls made on the way   *)
(* returned, url the url of the request and doc the document of the page.  *)
(***************************************************************************)
InitSeo ==
    /\ \E w \in SeoInputs :
          /\ url = w.url
          /\ type = w.type
          /\ env = w.env
          /\ doc = w.page.doc
          /\ htmlContent = w.page.text
    /\ result = NoResult
    /\ htmlResult = NoResult
    /\ htmlPrev = NoResult
    /\ elemResult = NoResult
    /\ elemPrev = NoResult
    /\ issueList = <<>>
    /\ seoScore = NoResult
    /\ accessibilityScore = NoResult
    /\ validHtml = NoResult
    /\ RouteIdle
    /\ FallbackIdle

AnalyzeSeo ==
    /\ result = NoResult
    /\ \E out \in analyzeSeo(url, type, env, doc, htmlContent) :
          /\ result' = out.result
          /\ htmlResult' = out.calls.htmlResult
          /\ elemResult' = out.calls.elemResult
          /\ validHtml' = out.calls.validHtml
          /\ seoScore' = out.calls.seoScore
          /\ accessibilityScore' = out.calls.accessibilityScore
    /\ UNCHANGED <<doc, url, htmlPrev, elemPrev, issueList, htmlContent, type, env,
                   routeVars, fallbackVars>>

NextSeo == AnalyzeSeo

SpecSeo == InitSeo /\ [][NextSeo]_vars

(***************************************************************************)
(* The analyze route as a state machine: requests arrive, each runs to its *)
(* await or to its response in one step, an awaited analysis resolves in   *)
(* another step, and the clock advances in between.  analyzeSeo never      *)
(* rejects (every path ends in a catch that resolves with a placeholder),  *)
(* so an awaiting handler always resumes after the await.                  *)
(***************************************************************************)
InitRoute ==
    /\ RouteIdle
    /\ AnalyzersIdle
    /\ HelpersIdle
    /\ SeoIdle
    /\ FallbackIdle

POST ==
    /\ Len(requests) < MaxRequests
    /\ \/ \E in \in RouteInputs : Receive("POST", in.url, PostType(in.type), TRUE)
       \/ Receive("POST", NoAttr, Null, FALSE)
    /\ UNCHANGED <<now, analyzerVars, helperVars, seoVars, fallbackVars>>

GET ==
    /\ Len(requests) < MaxRequests
    /\ \E in \in RouteInputs : Receive("GET", in.url, GetType(in.type), TRUE)
    /\ UNCHANGED <<now, analyzerVars, helperVars, seoVars, fallbackVars>>

ResumeHandler ==
    /\ \E i \in 1..Len(requests) :
          /\ requests[i].pc = "awaiting"
          /\ \E results \in ResultsOf(requests[i].url, requests[i].type) :
                Resume(i, results)
    /\ UNCHANGED <<now, analyzerVars, helperVars, seoVars, fallbackVars>>

Tick ==
    /\ now < MaxTicks * QuarterHour
    /\ now' = now + QuarterHour
    /\ UNCHANGED <<cache, requests, analyses, analyzerVars, helperVars, seoVars,
                   fallbackVars>>

NextRoute == POST \/ GET \/ ResumeHandler \/ Tick

SpecRoute == InitRoute /\ [][NextRoute]_vars

(***************************************************************************)
(* generateFallbackSuggestions as a state machine: the forEach over the    *)
(* issues is one step, every turn of the while loop is one step that draws *)
(* a random index, and the return is one step.  A turn that draws a        *)
(* suggestion already in the array changes nothing.                        *)
(* The function is synchronous, so it keeps running until it returns; and  *)
(* Math.random() is fair: an index that could be drawn in every turn is    *)
(* drawn in some turn.                                                     *)
(***************************************************************************)
InitFallback ==
    /\ issueList \in FallbackIssueLists
    /\ suggestions = <<>>
    /\ fallbackPc = "forEach"
    /\ htmlContent = ""
    /\ seoScore = NoResult
    /\ accessibilityScore = NoResult
    /\ validHtml = NoResult
    /\ AnalyzersIdle
    /\ SeoIdle
    /\ RouteIdle

ForEachIssue ==
    /\ fallbackPc = "forEach"
    /\ suggestions' = IssueSpecificSuggestions(issueList)
    /\ fallbackPc' = "while"
    /\ UNCHANGED <<analyzerVars, helperVars, seoVars, routeVars>>

Draw(randomIndex) ==
    /\ fallbackPc = "while"
    /\ NeedsMore(suggestions)
    /\ suggestions' = PushIfNew(suggestions, generalSuggestions[randomIndex + 1])
    /\ UNCHANGED <<fallbackPc, analyzerVars, helperVars, seoVars, routeVars>>

WhileTurn == \E randomIndex \in RandomIndexes : Draw(randomIndex)

ReturnSlice ==
    /\ fallbackPc = "while"
    /\ ~NeedsMore(suggestions)
    /\ suggestions' = SliceSix(suggestions)
    /\ fallbackPc' = "returned"
    /\ UNCHANGED <<analyzerVars, helperVars, seoVars, routeVars>>

NextFallback == ForEachIssue \/ WhileTurn \/ ReturnSlice

SpecFallback ==
    /\ InitFallback
    /\ [][NextFallback]_vars
    /\ WF_vars(ForEachIssue)
    /\ WF_vars(ReturnSlice)
    /\ \A randomIndex \in RandomIndexes : WF_vars(Draw(randomIndex))

(***************************************************************************)
(* The Document Analyzer followed by the score functions, as the file and  *)
(* GitHub paths of the orchestrator chain them (env-config.ts, lines 102   *)
(* to 104 and 230 to 232): a document is chosen, analyzeHtmlContent is     *)
(* called on it, and the two score functions are called on the issue list  *)
(* it returned.                                                            *)
(***************************************************************************)
ScoreHtmlIssues ==
    /\ htmlResult.status = "returned"
    /\ issueList' = htmlResult.issues
    /\ seoScore' = Returned(calculateSeoScoreFromIssues(htmlResult.issues))
    /\ accessibilityScore' =
           Returned(calculateAccessibilityScoreFromIssues(htmlResult.issues))
    /\ UNCHANGED <<htmlContent, validHtml, analyzerVars, seoVars, routeVars,
                   fallbackVars>>

NextScoring == AnalyzeHtmlContent \/ ScoreHtmlIssues

SpecScoring == Init /\ [][NextScoring]_vars

(***************************************************************************)
(* Properties.  The definitions below restate the documented behaviour in  *)
(* terms of the document alone, and are compared with what the calls       *)
(* returned.                                                               *)
(***************************************************************************)
HtmlReturned == htmlResult.status = "returned"
ElemReturned == elemResult.status = "returned"

\* the number of body elements with a property
CountNodes(d, P(_)) == Cardinality({i \in 1..Len(d.body) : P(d.body[i])})

\* the position, in the documented order of the nine checks, of the check
\* that raises the issue with this title
CheckNumber(title) ==
    CASE title \in {"Missing page title", "Title too short", "Title too long"} -> 1
      [] title \in {"Missing meta description", "Meta description too short",
                    "Meta description too long"} -> 2
      [] title \in {"Missing H1 heading", "Multiple H1 headings"} -> 3
      [] title = "H2 without H1" -> 4
      [] title = "H3 without H2" -> 5
      [] title = "Images missing alt text" -> 6
      [] title = "Links without text" -> 7
      [] title = "Missing viewport meta tag" -> 8
      [] title = "Missing structured data" -> 9
      [] OTHER -> 0

\* the issues of a Document Analyzer result that check k raised, without ids
IssuesOfCheck(res, k) ==
    LET sel == SelectSeq(res.issues, LAMBDA i : CheckNumber(i.title) = k)
    IN [j \in 1..Len(sel) |-> <<sel[j].severity, sel[j].title>>]

\* C1: analyzeHtmlContent never throws: for every document and every url
\* argument (omitted, an absolute URL, a non-URL string such as a file's
\* base name) the call returns a result.
C1_NeverThrows == htmlResult.status # "threw"

\* C2: analyzePageElements returns exactly six section records, named
\* Header, Navigation, Main Content, Sidebar, Footer, General in that order
\* with importance 8, 7, 10, 5, 4, 6, and every score is an integer in
\* [0,100].
C2_SixSections ==
    ElemReturned =>
        LET sa == elemResult.sectionAnalysis
        IN /\ Len(sa) = 6
           /\ [i \in 1..6 |-> sa[i].name]
                = <<"Header", "Navigation", "Main Content", "Sidebar",
                    "Footer", "General">>
           /\ [i \in 1..6 |-> sa[i].importance] = <<8, 7, 10, 5, 4, 6>>
           /\ \A i \in 1..6 : sa[i].score \in 0..100

\* a result in which the penalties of one section exceed 100, so that the
\* final clamp is what keeps its score in range
C2_Witness ==
    /\ ElemReturned
    /\ \E i \in 1..6 :
          /\ elemResult.sectionAnalysis[i].score = 0
          /\ Len(elemResult.sectionAnalysis[i].issues) >= 6

\* C3: analyzedElements = totalElements = 2 + the number of img elements
\* + the number of h1..h6 elements + the number of a[href] elements + the
\* number of p elements; the two units for title and meta description are
\* counted whether or not those elements exist.
C3_ElementCounters ==
    ElemReturned =>
        /\ elemResult.analyzedElements = elemResult.totalElements
        /\ elemResult.totalElements
             = 2 + CountNodes(doc, LAMBDA n : n.tag = "img")
                 + CountNodes(doc, LAMBDA n :
                        n.tag \in {"h1", "h2", "h3", "h4", "h5", "h6"})
                 + CountNodes(doc, LAMBDA n : n.tag = "a" /\ n.href # NoAttr)
                 + CountNodes(doc, LAMBDA n : n.tag = "p")

\* no title, no meta description, an anchor without href (not counted) and
\* an image with alt text (counted, though nothing is wrong with it)
C3_Witness ==
    /\ ElemReturned
    /\ ~doc.title.exists /\ ~doc.meta.exists
    /\ CountNodes(doc, LAMBDA n : n.tag = "a" /\ n.href = NoAttr) > 0
    /\ CountNodes(doc, LAMBDA n : n.tag = "img" /\ n.alt = "logo") > 0
    /\ elemResult.totalElements = 3

\* C4: in every analyzeHtmlContent result the issue at position k has id k
\* (unique ids that start at 1 in each call and grow by one), and the
\* issues appear in the fixed order of the nine checks, each check
\* contributing at most one issue; calls made one after another do not
\* share the counter.
C4_SequentialIds ==
    HtmlReturned =>
        LET is == htmlResult.issues
        IN /\ \A k \in 1..Len(is) : is[k].id = k
           /\ \A k \in 1..Len(is) : CheckNumber(is[k].title) \in 1..9
           /\ \A k \in 1..(Len(is) - 1) :
                 CheckNumber(is[k].title) < CheckNumber(is[k + 1].title)

\* a second call on a document that raises several issues
C4_Witness ==
    /\ HtmlReturned
    /\ htmlPrev.status = "returned"
    /\ Len(htmlResult.issues) >= 6

\* the title issue the documented brackets give for a title of this length
C5_TitleBracket(len) ==
    IF len = 0 THEN <<<<"high", "Missing page title">>>>
    ELSE IF 1 <= len /\ len < 10 THEN <<<<"medium", "Title too short">>>>
    ELSE IF len > 60 THEN <<<<"low", "Title too long">>>>
    ELSE <<>>

\* the same for a meta description of this length
C5_MetaBracket(len) ==
    IF len = 0 THEN <<<<"high", "Missing meta description">>>>
    ELSE IF len < 50 THEN <<<<"medium", "Meta description too short">>>>
    ELSE IF len > 160 THEN <<<<"low", "Meta description too long">>>>
    ELSE <<>>

\* C5: the Document Analyzer's length brackets are exact and first-match:
\* the title yields exactly one of missing/high (empty), too short/medium
\* (1..9), too long/low (over 60), nothing (10..60); the meta description
\* exactly one of missing/high (empty), too short/medium (under 50), too
\* long/low (over 160), nothing (50..160).
C5_DocumentBrackets ==
    HtmlReturned =>
        /\ IssuesOfCheck(htmlResult, 1)
             = C5_TitleBracket(IF doc.title.exists THEN doc.title.len ELSE 0)
        /\ IssuesOfCheck(htmlResult, 2)
             = C5_MetaBracket(IF doc.meta.exists /\ doc.meta.hasContent
                              THEN doc.meta.len ELSE 0)

\* a title of exactly 10 and a meta description of exactly 160 characters:
\* both on the passing side of a boundary
C5_Witness ==
    /\ HtmlReturned
    /\ doc.title.exists /\ doc.title.len = 10
    /\ doc.meta.exists /\ doc.meta.hasContent /\ doc.meta.len = 160
    /\ IssuesOfCheck(htmlResult, 1) = <<>>
    /\ IssuesOfCheck(htmlResult, 2) = <<>>

\* the penalty the documentation gives for an element issue of this kind
PenaltyOf(issue) ==
    CASE issue \in {"Missing page title", "Missing meta description"} -> 25
      [] issue \in {"Title is too short", "Meta description is too short"} -> 15
      [] issue \in {"Title is too long", "Meta description is too long"} -> 10
      [] issue = "Image missing alt text" -> 10
      [] issue = "Multiple H1 headings" -> 15
      [] issue = "Missing H1 heading" -> 20
      [] issue \in {"Non-descriptive link text", "Link missing text content"} -> 10
      [] issue = "Long paragraph (over 300 characters)" -> 5
      [] OTHER -> 5  \* Skipped heading level (Hp to Hn)

PenaltySum(issues) == SumSeq([i \in 1..Len(issues) |-> PenaltyOf(issues[i].issue)])

\* the title issue the documented brackets of the Element Analyzer give
C6_TitleBracket(d) ==
    IF ~d.title.exists \/ d.title.len = 0
    THEN <<[issue |-> "Missing page title", severity |-> "high", penalty |-> 25]>>
    ELSE IF d.title.len < 20
    THEN <<[issue |-> "Title is too short", severity |-> "medium", penalty |-> 15]>>
    ELSE IF d.title.len > 60
    THEN <<[issue |-> "Title is too long", severity |-> "low", penalty |-> 10]>>
    ELSE <<>>

\* the same for the meta description
C6_MetaBracket(d) ==
    IF ~d.meta.exists \/ ~d.meta.hasContent \/ d.meta.len = 0
    THEN <<[issue |-> "Missing meta description", severity |-> "high",
            penalty |-> 25]>>
    ELSE IF d.meta.len < 70
    THEN <<[issue |-> "Meta description is too short", severity |-> "medium",
            penalty |-> 15]>>
    ELSE IF d.meta.len > 160
    THEN <<[issue |-> "Meta description is too long", severity |-> "low",
            penalty |-> 10]>>
    ELSE <<>>

\* C6: the Element Analyzer's length brackets: the title yields high/-25
\* when absent or empty, medium/-15 under 20, low/-10 over 60, nothing for
\* 20..60; the meta description high/-25 when absent or empty, medium/-15
\* under 70, low/-10 over 160, nothing for 70..160.  Each such issue has
\* section 'header' and its penalty is applied to the Header record,
\* whether or not a header landmark exists.
C6_ElementBrackets ==
    ElemReturned =>
        LET exp == C6_TitleBracket(doc) \o C6_MetaBracket(doc)
            n == Len(exp)
            all == elemResult.elementIssues
            header == elemResult.sectionAnalysis[1]
        IN /\ Len(all) >= n /\ Len(header.issues) >= n
           /\ \A j \in 1..n :
                 /\ all[j].issue = exp[j].issue
                 /\ all[j].severity = exp[j].severity
                 /\ all[j].section = "header"
                 /\ header.issues[j] = all[j]
           /\ Len(SelectSeq(all, LAMBDA i :
                     i.element \in {"Title", "Meta Description"})) = n
           /\ header.name = "Header"
           /\ header.score
                = Max(0, 100 - SumSeq([j \in 1..n |-> exp[j].penalty])
                           - PenaltySum(SubSeq(header.issues, n + 1,
                                               Len(header.issues))))

\* a title of 19 (too short) and a meta description of exactly 70 (passes)
\* in a document without any header landmark
C6_Witness ==
    /\ ElemReturned
    /\ doc.title.exists /\ doc.title.len = 19
    /\ doc.meta.exists /\ doc.meta.hasContent /\ doc.meta.len = 70
    /\ Sections(doc).header = 0
    /\ elemResult.sectionAnalysis[1].score = 85

\* the reference URL's hostname, when a reference URL was supplied
C7_HostInHref(href, u) ==
    u # <<>> /\ ParseURL(u).ok /\ Includes(href, ParseURL(u).hostname)

\* C7: analyzeHtmlContent partitions the links: internal + external =
\* total; an href starting with '#' or '/', or containing the reference
\* URL's hostname, or not starting with 'http' is internal, and an href
\* starting with 'http' that does not contain the hostname is external.
C7_LinksPartition ==
    HtmlReturned =>
        /\ htmlResult.links.internal + htmlResult.links.external
             = htmlResult.links.total
        /\ htmlResult.links.internal
             = CountNodes(doc, LAMBDA n :
                   /\ n.tag = "a" /\ n.href # NoAttr
                   /\ \/ StartsWith(n.href, "#") \/ StartsWith(n.href, "/")
                      \/ C7_HostInHref(n.href, url)
                      \/ ~StartsWithHttp(n.href))
        /\ htmlResult.links.external
             = CountNodes(doc, LAMBDA n :
                   /\ n.tag = "a" /\ n.href # NoAttr
                   /\ StartsWithHttp(n.href) /\ ~C7_HostInHref(n.href, url))

\* C8: analyzeHtmlContent partitions the images: withAlt (non-empty alt),
\* withEmptyAlt (alt present and empty) and withoutAlt (no alt attribute)
\* are all >= 0 and sum to total; the single 'Images missing alt text'
\* issue (medium) is raised exactly when withoutAlt > 0, so images with
\* alt="" never trigger it.
C8_ImagesPartition ==
    HtmlReturned =>
        LET im == htmlResult.images
        IN /\ im.total = CountNodes(doc, LAMBDA n : n.tag = "img")
           /\ im.withAlt
                = CountNodes(doc, LAMBDA n :
                      n.tag = "img" /\ n.alt # Null /\ n.alt # "")
           /\ im.withEmptyAlt
                = CountNodes(doc, LAMBDA n : n.tag = "img" /\ n.alt = "")
           /\ im.withoutAlt
                = CountNodes(doc, LAMBDA n : n.tag = "img" /\ n.alt = Null)
           /\ im.withAlt >= 0 /\ im.withEmptyAlt >= 0 /\ im.withoutAlt >= 0
           /\ im.withAlt + im.withEmptyAlt + im.withoutAlt = im.total
           /\ IssuesOfCheck(htmlResult, 6)
                = IF im.withoutAlt > 0
                  THEN <<<<"medium", "Images missing alt text">>>>
                  ELSE <<>>

\* an image with alt="" and one with alt text, none without alt: no issue
C8_Witness ==
    /\ HtmlReturned
    /\ htmlResult.images.withEmptyAlt = 1
    /\ htmlResult.images.withAlt = 1
    /\ htmlResult.images.withoutAlt = 0
    /\ IssuesOfCheck(htmlResult, 6) = <<>>

\* the first element in document order with a property, 0 if there is none
C9_First(d, P(_)) ==
    IF \E i \in 1..Len(d.body) : P(d.body[i])
    THEN CHOOSE i \in 1..Len(d.body) :
            /\ P(d.body[i])
            /\ \A j \in 1..(i - 1) : ~P(d.body[j])
    ELSE 0

\* the landmark a region resolves to: its candidates in fallback order
C9_Landmark(d, region) ==
    LET byTag(t) == C9_First(d, LAMBDA n : n.tag = t)
        byRole(r) == C9_First(d, LAMBDA n : n.tag = "div" /\ n.role = r)
        byClass(c) == C9_First(d, LAMBDA n : \E i \in 1..Len(n.cls) : n.cls[i] = c)
        firstOf(cands) ==
            IF \E i \in 1..Len(cands) : cands[i] # 0
            THEN cands[CHOOSE i \in 1..Len(cands) :
                          cands[i] # 0 /\ \A j \in 1..(i - 1) : cands[j] = 0]
            ELSE 0
    IN CASE region = "header" ->
              firstOf(<<byTag("header"), byRole("banner"), byClass("header")>>)
         [] region = "navigation" ->
              firstOf(<<byTag("nav"), byRole("navigation")>>)
         [] region = "content" ->
              firstOf(<<byTag("main"), byRole("main"), byClass("content")>>)
         [] region = "sidebar" ->
              firstOf(<<byTag("aside"), byClass("sidebar")>>)
         [] region = "footer" ->
              firstOf(<<byTag("footer"), byRole("contentinfo"), byClass("footer")>>)

\* element e lies in the region: the region's landmark is e or an ancestor
C9_InRegion(d, region, e) ==
    C9_Landmark(d, region) # 0 /\ Contains(d, C9_Landmark(d, region), e)

\* the documented section of element e
C9_Section(d, e) ==
    IF C9_InRegion(d, "header", e) THEN "header"
    ELSE IF C9_InRegion(d, "navigation", e) THEN "navigation"
    ELSE IF C9_InRegion(d, "content", e) THEN "content"
    ELSE IF C9_InRegion(d, "sidebar", e) THEN "sidebar"
    ELSE IF C9_InRegion(d, "footer", e) THEN "footer"
    ELSE "general"

\* C9: an element's section is the first of header, navigation, content,
\* sidebar, footer (in that order) whose resolved landmark is the element
\* itself or an ancestor of it, and 'general' when no resolved landmark
\* contains it; when landmarks nest, the earlier-tested region wins.
C9_SectionAttribution ==
    ElemReturned =>
        LET noAlt == SelectIdx(doc, LAMBDA n : n.tag = "img" /\ n.alt = Null, 1)
            found == SelectSeq(elemResult.elementIssues,
                               LAMBDA i : i.issue = "Image missing alt text")
        IN /\ \A e \in 1..Len(doc.body) :
                 determineSectionForElement(doc, e, Sections(doc)) = C9_Section(doc, e)
           /\ [j \in 1..Len(found) |-> found[j].section]
                = [j \in 1..Len(noAlt) |-> C9_Section(doc, noAlt[j])]

\* an image inside a footer landmark that lies inside the header landmark
\* (attributed to the header), reported by the analyzer
C9_Witness ==
    /\ ElemReturned
    /\ \E e \in 1..Len(doc.body) :
          /\ doc.body[e].tag = "img" /\ doc.body[e].alt = Null
          /\ C9_InRegion(doc, "header", e) /\ C9_InRegion(doc, "footer", e)
          /\ Contains(doc, C9_Landmark(doc, "header"), C9_Landmark(doc, "footer"))
          /\ C9_Landmark(doc, "header") # C9_Landmark(doc, "footer")
    /\ \E j \in 1..Len(elemResult.elementIssues) :
          /\ elemResult.elementIssues[j].issue = "Image missing alt text"
          /\ elemResult.elementIssues[j].section = "header"

\* the record name the documentation gives a section
LabelOf(section) ==
    CASE section = "header" -> "Header"
      [] section = "navigation" -> "Navigation"
      [] section = "content" -> "Main Content"
      [] section = "sidebar" -> "Sidebar"
      [] section = "footer" -> "Footer"
      [] section = "general" -> "General"

IsMultipleH1(i) == i.issue = "Multiple H1 headings"

\* the H1 elements of the document, in document order
C10_H1s == SelectIdx(doc, LAMBDA n : n.tag = "h1", 1)

\* with k >= 2 H1 elements there is one medium 'Multiple H1 headings' issue
\* for each H1 after the first, in document order
C10_OnePerRepeatedH1 ==
    LET m == SelectSeq(elemResult.elementIssues, IsMultipleH1)
    IN /\ Len(m) = Len(C10_H1s) - 1
       /\ \A j \in 1..Len(m) :
             /\ m[j].severity = "medium"
             /\ m[j].section = C9_Section(doc, C10_H1s[j + 1])

\* C10 as stated: with k >= 2 H1 elements, one medium 'Multiple H1
\* headings' issue is raised for each H1 after the first (k-1 issues), and
\* each of them reduces the Header section's score by 15 before the final
\* clamp.
C10_RepeatedH1Original ==
    (ElemReturned /\ Len(C10_H1s) >= 2) =>
        LET header == elemResult.sectionAnalysis[1]
        IN /\ C10_OnePerRepeatedH1
           /\ Len(SelectSeq(header.issues, IsMultipleH1)) = Len(C10_H1s) - 1
           /\ header.score = Max(0, 100 - PenaltySum(header.issues))

\* C10 as amended: with k >= 2 H1 elements, one medium 'Multiple H1
\* headings' issue is raised for each H1 after the first (k-1 issues), and
\* each of them reduces by 15, before the final clamp, the score of the
\* record of the section that H1 is attributed to (the Header record only
\* for an H1 inside the header landmark).
C10_RepeatedH1Amended ==
    (ElemReturned /\ Len(C10_H1s) >= 2) =>
        /\ C10_OnePerRepeatedH1
        /\ \A r \in 1..6 :
              LET rec == elemResult.sectionAnalysis[r]
              IN /\ Len(SelectSeq(rec.issues, IsMultipleH1))
                      = Cardinality({j \in 2..Len(C10_H1s) :
                            LabelOf(C9_Section(doc, C10_H1s[j])) = rec.name})
                 /\ rec.score = Max(0, 100 - PenaltySum(rec.issues))

\* three H1 elements, the first two inside the header landmark, the third
\* outside every landmark
C10_Witness ==
    /\ ElemReturned
    /\ Len(C10_H1s) = 3
    /\ C9_Section(doc, C10_H1s[2]) = "header"
    /\ C9_Section(doc, C10_H1s[3]) = "general"
    /\ elemResult.sectionAnalysis[1].score = 85
    /\ elemResult.sectionAnalysis[6].score = 85

\* the heading elements of the document, in document order
C11_Headings == SelectIdx(doc, LAMBDA n : n.tag \in {"h1", "h2", "h3", "h4", "h5", "h6"}, 1)

\* the level of the j-th heading of the document
C11_Level(j) == HeadingLevel(doc.body[C11_Headings[j]].tag)

\* the text of the issue for a step from level p to level n
C11_Message(p, n) ==
    "Skipped heading level (H" \o ToString(p) \o " to H" \o ToString(n) \o ")"

C11_IsSkipped(i) == \E p \in 0..6, n \in 0..6 : i.issue = C11_Message(p, n)

\* the positions, in document order, of the headings that are not the first
\* and whose level exceeds the level of the heading just before by more than 1
C11_Steps ==
    SelectSeq([j \in 1..Len(C11_Headings) |-> j],
              LAMBDA j : j > 1 /\ C11_Level(j) > C11_Level(j - 1) + 1)

\* C11: skipped-level detection is sequential: over the headings in document
\* order, a low 'Skipped heading level (Hp to Hn)' issue is raised for a
\* heading exactly when it is not the first heading and its level n exceeds
\* the level p of the heading just before it by more than 1; the first
\* heading never raises it, a decrease never raises it, and the message
\* names p and n.
C11_SkippedLevels ==
    ElemReturned =>
        LET skipped == SelectSeq(elemResult.elementIssues, C11_IsSkipped)
        IN /\ Len(skipped) = Len(C11_Steps)
           /\ \A k \in 1..Len(skipped) :
                 LET j == C11_Steps[k]
                 IN /\ skipped[k].issue = C11_Message(C11_Level(j - 1), C11_Level(j))
                    /\ skipped[k].severity = "low"
                    /\ skipped[k].element = "H" \o ToString(C11_Level(j)) \o " Heading"
                    /\ skipped[k].selector = getSelector(doc.body[C11_Headings[j]])

\* H1, then H4, then H2: one issue, naming H1 and H4; the decrease raises none
C11_Witness ==
    /\ ElemReturned
    /\ Len(C11_Headings) = 3
    /\ C11_Level(1) = 1 /\ C11_Level(2) = 4 /\ C11_Level(3) = 2
    /\ LET skipped == SelectSeq(elemResult.elementIssues, C11_IsSkipped)
       IN /\ Len(skipped) = 1
          /\ skipped[1].issue = "Skipped heading level (H1 to H4)"

C12_IsMissingH1(i) == i.issue = "Missing H1 heading"

\* the positions of the issues with a property in the result's issue list
C12_Positions(P(_)) ==
    {j \in 1..Len(elemResult.elementIssues) : P(elemResult.elementIssues[j])}

\* C12: the Element Analyzer raises the 'Missing H1 heading' issue (high,
\* selector 'body', section 'content', in the Main Content record, whose
\* score it reduces by 20) exactly once when the document has no H1 element
\* and never otherwise; it comes after every per-heading issue, and never
\* together with a 'Multiple H1 headings' issue.
C12_MissingH1 ==
    ElemReturned =>
        LET missing == C12_Positions(C12_IsMissingH1)
            content == elemResult.sectionAnalysis[3]
        IN /\ Cardinality(missing) = (IF Len(C10_H1s) = 0 THEN 1 ELSE 0)
           /\ \A j \in missing :
                 LET i == elemResult.elementIssues[j]
                 IN /\ i.severity = "high"
                    /\ i.selector = "body"
                    /\ i.section = "content"
                    /\ \A k \in C12_Positions(C11_IsSkipped) : k < j
                    /\ C12_Positions(IsMultipleH1) = {}
                    /\ Len(SelectSeq(content.issues, C12_IsMissingH1)) = 1
           /\ \A r \in 1..6 :
                 LET rec == elemResult.sectionAnalysis[r]
                 IN /\ r # 3 => SelectSeq(rec.issues, C12_IsMissingH1) = <<>>
                    /\ missing = {} => SelectSeq(rec.issues, C12_IsMissingH1) = <<>>
           /\ content.name = "Main Content"
           /\ content.score = Max(0, 100 - PenaltySum(content.issues))

\* no H1: an H2 then an H4 raise a skipped-level issue, the missing-H1 issue
\* follows it and leaves Main Content at 80
C12_Witness ==
    /\ ElemReturned
    /\ Len(C10_H1s) = 0
    /\ Len(C11_Headings) = 2
    /\ \E j, k \in 1..Len(elemResult.elementIssues) :
          /\ k < j
          /\ C11_IsSkipped(elemResult.elementIssues[k])
          /\ C12_IsMissingH1(elemResult.elementIssues[j])
    /\ elemResult.sectionAnalysis[3].score = 80

\* the page of the scenario: no title, no meta description, exactly one H1
\* and no other heading, one image and it has no alt attribute, a viewport
\* tag, no links, no structured data
C13_Page ==
    /\ ~doc.title.exists
    /\ ~doc.meta.exists
    /\ Len(C11_Headings) = 1 /\ Len(C10_H1s) = 1
    /\ CountNodes(doc, LAMBDA n : n.tag = "img") = 1
    /\ CountNodes(doc, LAMBDA n : n.tag = "img" /\ n.alt = Null) = 1
    /\ doc.viewport
    /\ CountNodes(doc, LAMBDA n : n.tag = "a") = 0
    /\ doc.structured = "none"

\* C13: for a page with no title, no meta description, exactly one H1, one
\* image without alt attribute, a viewport tag, no links and no structured
\* data, analyzeHtmlContent returns exactly four issues, with ids 1..4 in
\* this order: Missing page title (high), Missing meta description (high),
\* Images missing alt text (medium), Missing structured data (medium); no
\* H1 issue and no viewport issue.
C13_Scenario ==
    (HtmlReturned /\ C13_Page) =>
        htmlResult.issues =
            <<[id |-> 1, severity |-> "high", title |-> "Missing page title"],
              [id |-> 2, severity |-> "high", title |-> "Missing meta description"],
              [id |-> 3, severity |-> "medium", title |-> "Images missing alt text"],
              [id |-> 4, severity |-> "medium", title |-> "Missing structured data"]>>

\* the call has returned for the page of the scenario
C13_Witness ==
    /\ HtmlReturned
    /\ C13_Page
    /\ Len(htmlResult.issues) = 4
    /\ htmlResult.images.withoutAlt = 1
    /\ htmlResult.headings.h1 = 1

C15_Count(list, severity) ==
    Cardinality({i \in 1..Len(list) : list[i].severity = severity})

\* C15: calculateSeoScoreFromIssues returns max(0, min(100, 100 - 10*H -
\* 5*M - 2*L)), H, M and L being the numbers of high, medium and low issues
\* of the list; the result is in [0,100] for every list and, depending on
\* the three numbers only, does not depend on the order of the issues.
C15_SeoScore ==
    seoScore # NoResult =>
        /\ seoScore.value = Max(0, Min(100, 100 - 10 * C15_Count(issueList, "high")
                                                - 5 * C15_Count(issueList, "medium")
                                                - 2 * C15_Count(issueList, "low")))
        /\ seoScore.value \in 0..100

\* eleven high issues: 100 - 110 is raised to 0
C15_Witness ==
    /\ seoScore = Returned(0)
    /\ C15_Count(issueList, "high") = 11

\* the titles of the issue templates that hold an accessibility keyword:
\* 'alt text', 'keyboard' and 'focus' in another case, 'aria' in 'Variable'
C16_HasKeyword(title) ==
    title \in {"Images missing alt text", "Keyboard FOCUS lost", "Variable fonts"}

\* C16: calculateAccessibilityScoreFromIssues returns 90 when no issue title
\* holds an accessibility keyword (compared without regard to case), and
\* otherwise max(0, 100 - 15*H - 8*M - 3*L), H, M and L being counted over
\* the issues whose title holds such a keyword only; the result is in
\* [0,100] for every issue list.
C16_AccessibilityScore ==
    accessibilityScore # NoResult =>
        LET related == SelectSeq(issueList, LAMBDA i : C16_HasKeyword(i.title))
        IN /\ accessibilityScore.value =
                  (IF related = <<>> THEN 90
                   ELSE Max(0, 100 - 15 * C15_Count(related, "high")
                                   - 8 * C15_Count(related, "medium")
                                   - 3 * C15_Count(related, "low")))
           /\ accessibilityScore.value \in 0..100

\* a high issue with the keywords in another case and an issue without
\* keyword: only the first counts
C16_Witness ==
    /\ accessibilityScore = Returned(85)
    /\ Len(issueList) = 2
    /\ \E i \in 1..2 : /\ issueList[i].title = "Keyboard FOCUS lost"
                        /\ issueList[i].severity = "high"
    /\ \E i \in 1..2 : issueList[i].title = "Missing page title"

\* the text holds the literal somewhere: at its start, or in what follows
\* its first character
RECURSIVE C17_Contains(_, _)
C17_Contains(string, literal) ==
    /\ Len(string) >= Len(literal)
    /\ \/ SubSeq(string, 1, Len(literal)) = literal
       \/ C17_Contains(Tail(string), literal)

\* C17: isValidHtml(text) is true if and only if the text holds all four
\* literals '<html', '<head', '<body' and '</html>', in any order and
\* compared with regard to case; it returns a boolean for every text.
C17_IsValidHtml ==
    validHtml # NoResult =>
        /\ validHtml.value \in BOOLEAN
        /\ validHtml.value <=> /\ C17_Contains(htmlContent, "<html")
                               /\ C17_Contains(htmlContent, "<head")
                               /\ C17_Contains(htmlContent, "<body")
                               /\ C17_Contains(htmlContent, "</html>")

\* the four literals in the reverse of their order in a document
C17_Witness ==
    /\ htmlContent = "</html><body><head><html>"
    /\ validHtml = Returned(TRUE)

\* the result is a placeholder: the record generateMockResults makes up
C18_Placeholder == result.suggestions.by = "generateMockResults"

\* the analysis got hold of the HTML of the page: the uploaded file, the
\* page behind the url, the first HTML file of the repository
C18_ObtainedHtml ==
    /\ result.status = "resolved"
    /\ ~C18_Placeholder
    /\ \/ type = "file"
       \/ type = "url" /\ env.pageFetch = "ok"
       \/ type = "github" /\ \E i \in 1..Len(env.github.contents) :
                                   env.github.contents[i] = "Index.HTML"

\* C18: an analysis in which the orchestrator obtains the HTML of the page
\* returns a record that carries both the output of the Document Analyzer
\* (its issue list, from which the SEO and accessibility subscores are
\* computed) and the output of the Element Analyzer (elementAnalysis), both
\* computed from that HTML.
C18_BothOutputs ==
    C18_ObtainedHtml =>
        /\ htmlResult.status = "returned"
        /\ result.issues = htmlResult.issues
        /\ result.subscores.seo = seoScore.value
        /\ result.subscores.accessibility = accessibilityScore.value
        /\ elemResult.status = "returned"
        /\ "elementAnalysis" \in DOMAIN result
        /\ result.elementAnalysis = elemResult

\* the analysis cannot go on: the type is unknown, the file cannot be read
\* or is rejected, the PageSpeed API or the GitHub API fails, the url names
\* no repository, the repository lists no file to analyse, a download
\* fails, or the Document Analyzer throws
C19_Stopped ==
    CASE type = "file" ->
            \/ env.fileRead = "throws"
            \/ validHtml = Returned(FALSE)
            \/ htmlResult = Threw
      [] type = "url" -> env.pageSpeed = Threw
      [] type = "github" ->
            \/ url # GithubUrl
            \/ env.github = Threw
            \/ /\ env.github # Threw
               /\ \/ \A i \in 1..Len(env.github.contents) :
                         env.github.contents[i] = "package.json"
                  \/ env.download = "throws"
                  \/ env.package = "throws"
            \/ htmlResult = Threw
      [] OTHER -> TRUE

\* a collaborator failed, or the core threw
C19_Failed ==
    \/ type \in {"file", "url", "github"} /\ C19_Stopped
    \/ type \in {"file", "url", "github"} /\ env.ai = "throws"
    \/ type = "url" /\ env.pageFetch = "throws"

\* C19 as stated: analyzeSeo always resolves with a result and never
\* rejects, for every type and every failure of a collaborator (file read,
\* HTTP fetch, GitHub API, PageSpeed API, AI service, an exception from the
\* core); on failure the result is a placeholder carrying the requested url
\* and type.
C19_PlaceholderOnFailureOriginal ==
    result # NoResult =>
        /\ result.status = "resolved"
        /\ C19_Failed => /\ C18_Placeholder
                          /\ result.url = url
                          /\ result.type = type

\* C19 as amended: analyzeSeo always resolves with a result and never
\* rejects.  The result is a placeholder carrying the requested url and type
\* exactly when the analysis cannot go on (unknown type, file unreadable or
\* rejected by isValidHtml, PageSpeed API or GitHub API failing, no
\* repository or no file to analyse, a download failing, the Document
\* Analyzer throwing).  A failure of the AI service leaves the result of the
\* analysis in place, with the rule-based suggestions; a failure of the page
\* fetch of the URL path leaves the PageSpeed result, without
\* elementAnalysis.
C19_PlaceholderOnFailureAmended ==
    result # NoResult =>
        /\ result.status = "resolved"
        /\ C19_Stopped <=> C18_Placeholder
        /\ C18_Placeholder => result.url = url /\ result.type = type
        /\ ~C18_Placeholder =>
              /\ result.type = type
              /\ "metadata" \in DOMAIN result
              /\ (type = "url" /\ env.pageFetch = "throws") =>
                    /\ "elementAnalysis" \notin DOMAIN result
                    /\ result.suggestions.by = "extractSuggestionsFromPageSpeed"
              /\ (type = "url" /\ env.pageFetch = "ok") =>
                    "elementAnalysis" \in DOMAIN result
              /\ (env.ai = "throws" /\ ~(type = "url" /\ env.pageFetch = "throws")) =>
                    result.suggestions.by = "generateFallbackSuggestions"

\* the AI service fails in the analysis of an uploaded file: the result
\* carries the issues of the Document Analyzer and the rule-based suggestions
C19_Witness ==
    /\ type = "file"
    /\ env.ai = "throws"
    /\ result.status = "resolved"
    /\ HtmlReturned
    /\ result.issues = htmlResult.issues
    /\ result.suggestions.by = "generateFallbackSuggestions"

\* C20: for every section record analyzePageElements returns, score ==
\* max(0, 100 - the sum of the penalties of the issues in the record's issue
\* list), the penalty being fixed by the kind of issue (missing title or
\* description 25, too short 15, too long 10, image without alt 10,
\* multiple H1 15, skipped level 5, missing H1 20, link text 10, long
\* paragraph 5); scores only decrease during a run, so the upper clamp at
\* 100 never changes a score.
C20_ScoreIsPenaltySum ==
    ElemReturned =>
        LET fs == Findings(doc)
            raw == RawSectionAnalysis(fs)
        IN /\ \A r \in 1..Len(elemResult.sectionAnalysis) :
                 LET rec == elemResult.sectionAnalysis[r]
                 IN /\ rec.score = Max(0, 100 - PenaltySum(rec.issues))
                    /\ raw[r].score <= 100
                    /\ raw[r].score = 100 - PenaltySum(rec.issues)
           /\ \A i \in 1..Len(fs) : fs[i].penalty > 0

\* a record whose penalties go beyond 100, left at 0, and a record with
\* issues of three kinds and a score in between
C20_Witness ==
    /\ ElemReturned
    /\ \E r \in 1..6 :
          LET rec == elemResult.sectionAnalysis[r]
          IN /\ rec.score = 0
             /\ PenaltySum(rec.issues) > 100
    /\ \E r \in 1..6 :
          LET rec == elemResult.sectionAnalysis[r]
          IN /\ rec.score \in 1..99
             /\ Cardinality({rec.issues[i].issue : i \in 1..Len(rec.issues)}) >= 3

(***************************************************************************)
(* The analyze route.                                                      *)
(***************************************************************************)
\* a step in which a handler starts, and the request it was given
C21_Arrives == Len(requests') = Len(requests) + 1
C21_Arrived == requests'[Len(requests')]

\* a step in which the handler of request i resumes after its await
C21_Resumes(i) == requests[i].pc = "awaiting" /\ requests'[i].pc = "responded"

C21_Key(request) == <<request.type, ":">> \o request.url

\* the cache holds an entry for the key stored less than 30 minutes ago
C21_Cached(key) ==
    key \in DOMAIN cache /\ now - cache[key].timestamp < 30 * 60 * 1000

\* C21: a request that passes the checks and finds an entry for its key
\* stored less than 30 minutes earlier is answered with that entry's data
\* without a call of analyzeSeo; without entry or with one of 30 minutes or
\* more analyzeSeo is called, and when it resolves its result is stored
\* under the key with the current time and every other entry is left as it
\* was.  The method of the request makes no difference.
C21_Cache ==
    [][/\ C21_Arrives /\ C21_Arrived.response.status \notin {400, 500} =>
            LET key == C21_Key(C21_Arrived)
            IN /\ cache' = cache
               /\ IF C21_Cached(key)
                  THEN /\ C21_Arrived.pc = "responded"
                       /\ C21_Arrived.response =
                              [status |-> 200, body |-> cache[key].data]
                       /\ analyses' = analyses
                  ELSE /\ C21_Arrived.pc = "awaiting"
                       /\ Len(analyses') = Len(analyses) + 1
                       /\ analyses'[Len(analyses')].url = C21_Arrived.url
                       /\ analyses'[Len(analyses')].type = C21_Arrived.type
       /\ \A i \in 1..Len(requests) :
            C21_Resumes(i) =>
                LET key == C21_Key(requests[i])
                IN /\ requests'[i].response.status = 200
                   /\ DOMAIN cache' = DOMAIN cache \cup {key}
                   /\ cache'[key] = [data |-> requests'[i].response.body,
                                     timestamp |-> now]
                   /\ \A other \in DOMAIN cache \ {key} :
                          cache'[other] = cache[other]
                   /\ analyses' = analyses]_vars

\* a POST was analysed and stored, and a GET for the same key at a later time
\* was answered with the stored data without an analysis of its own
C21_Witness ==
    /\ Len(requests) = 2
    /\ requests[1].method = "POST" /\ requests[1].analysis = 1
    /\ requests[1].pc = "responded"
    /\ requests[2].method = "GET" /\ requests[2].analysis = 0
    /\ requests[2].response = requests[1].response
    /\ requests[2].response.status = 200
    /\ now > 0

\* the url of a request is missing or empty, or its type is "url" and the
\* url does not parse
C23_Invalid(request) ==
    \/ request.url = NoAttr
    \/ Len(request.url) = 0
    \/ request.type = "url" /\ ~ParseURL(request.url).ok

C29_OncePerWindow ==
    \A i, j \in 1..Len(analyses) :
        /\ i < j
        /\ analyses[i].url = analyses[j].url
        /\ analyses[i].type = analyses[j].type
        => analyses[j].at - analyses[i].at >= 30 * 60 * 1000

(***************************************************************************)
(* The file-upload path.                                                   *)
(***************************************************************************)
\* C22: analyzeHtmlContent runs only after isValidHtml accepted the content;
\* rejected content gives a placeholder of type "file" and no analyzer call;
\* the url and GitHub paths never call isValidHtml; and whenever isValidHtml
\* accepted the content the result has type "file", performance 80 and the
\* issue list the Document Analyzer returned, not placeholder issues.
C22_GatedAnalysis ==
    result # NoResult =>
        /\ type \in {"url", "github"} => validHtml = NoResult
        /\ type = "file" /\ htmlResult # NoResult => validHtml = Returned(TRUE)
        /\ validHtml = Returned(FALSE) =>
              /\ C18_Placeholder
              /\ result.type = "file"
              /\ htmlResult = NoResult
        /\ validHtml = Returned(TRUE) =>
              /\ result.type = "file"
              /\ result.subscores.performance = 80
              /\ ~C18_Placeholder
              /\ HtmlReturned
              /\ result.issues = htmlResult.issues

(***************************************************************************)
(* The fallback suggestions.                                               *)
(***************************************************************************)
\* how often a text occurs in a list
C24_Occurrences(list, x) == Cardinality({i \in 1..Len(list) : list[i] = x})

\* C24: every call of generateFallbackSuggestions returns; what it returns
\* has at least 4 and at most 6 suggestions; and at no point does the array
\* hold one of the 7 general suggestions twice.
C24_Terminates ==
    /\ <>(fallbackPc = "returned")
    /\ [](fallbackPc = "returned" => Len(suggestions) >= 4 /\ Len(suggestions) <= 6)
    /\ [](\A i \in 1..Len(generalSuggestions) :
             C24_Occurrences(suggestions, generalSuggestions[i]) <= 1)

\* a call returned after the loop had to add three general suggestions to
\* the one suggestion the issues gave
C24_Witness ==
    /\ fallbackPc = "returned"
    /\ Len(IssueSpecificSuggestions(issueList)) = 1
    /\ Len(suggestions) = 4
    /\ \A i \in 2..4 : \E k \in 1..Len(generalSuggestions) :
           suggestions[i] = generalSuggestions[k]

(***************************************************************************)
(* The element issues and the section records.                             *)
(***************************************************************************)
\* the issues of the flat list whose section has the label name, in order
C25_IssuesLabelled(name) ==
    SelectSeq(elemResult.elementIssues, LAMBDA i : LabelOf(i.section) = name)

\* C25: in every analyzePageElements result each section record holds
\* exactly the issues of elementIssues whose section field has the record's
\* name as label, in the order of elementIssues; every issue's label names
\* exactly one record; and the lengths of the section lists sum to the
\* length of elementIssues.
C25_IssuesPerSection ==
    ElemReturned =>
        LET secs == elemResult.sectionAnalysis
        IN /\ \A k \in 1..Len(secs) : secs[k].issues = C25_IssuesLabelled(secs[k].name)
           /\ \A i \in 1..Len(elemResult.elementIssues) :
                 Cardinality({k \in 1..Len(secs) :
                     secs[k].name = LabelOf(elemResult.elementIssues[i].section)}) = 1
           /\ SumSeq([k \in 1..Len(secs) |-> Len(secs[k].issues)])
                = Len(elemResult.elementIssues)

\* a result with issues in the Main Content record and in another record,
\* one of them holding several issues
C25_Witness ==
    /\ ElemReturned
    /\ \E k \in 1..Len(elemResult.sectionAnalysis) :
          /\ elemResult.sectionAnalysis[k].name = "Main Content"
          /\ Len(elemResult.sectionAnalysis[k].issues) >= 2
    /\ \E k \in 1..Len(elemResult.sectionAnalysis) :
          /\ elemResult.sectionAnalysis[k].name = "Footer"
          /\ Len(elemResult.sectionAnalysis[k].issues) >= 1

(***************************************************************************)
(* The issue list of one document and its SEO score.                       *)
(***************************************************************************)
C26_Has(title) ==
    \E i \in 1..Len(htmlResult.issues) : htmlResult.issues[i].title = title

\* C26: no analyzeHtmlContent result holds both "H2 without H1" and "H3
\* without H2"; "H2 without H1" occurs only together with "Missing H1
\* heading"; the issue list has at most 8 entries and no id above 8.
C26_AtMostEight ==
    HtmlReturned =>
        /\ ~(C26_Has("H2 without H1") /\ C26_Has("H3 without H2"))
        /\ C26_Has("H2 without H1") => C26_Has("Missing H1 heading")
        /\ Len(htmlResult.issues) <= 8
        /\ \A i \in 1..Len(htmlResult.issues) : htmlResult.issues[i].id <= 8

\* a document with H2 and H3 and no H1 on which every other check fails
\* too: eight issues, "H2 without H1" among them
C26_Witness ==
    /\ HtmlReturned
    /\ CountNodes(doc, LAMBDA n : n.tag = "h2") > 0
    /\ CountNodes(doc, LAMBDA n : n.tag = "h3") > 0
    /\ Len(htmlResult.issues) = 8
    /\ C26_Has("H2 without H1")

\* C27: the SEO score of an issue list analyzeHtmlContent returned lies in
\* 40..100 and is 100 less 10, 5 and 2 per high, medium and low issue (the
\* clamp at 0 does not act); the list has at most 4 high issues and at most
\* 4 others.
C27_ScoreRange ==
    seoScore # NoResult =>
        LET high == C15_Count(issueList, "high")
            medium == C15_Count(issueList, "medium")
            low == C15_Count(issueList, "low")
        IN /\ issueList = htmlResult.issues
           /\ seoScore.value >= 40 /\ seoScore.value <= 100
           /\ seoScore.value = 100 - 10 * high - 5 * medium - 2 * low
           /\ high <= 4
           /\ Len(issueList) - high <= 4

\* the score of a document with 4 high and 4 medium issues: 40
C27_Witness ==
    /\ seoScore # NoResult
    /\ C15_Count(issueList, "high") = 4
    /\ C15_Count(issueList, "medium") = 4
    /\ seoScore.value = 40

(***************************************************************************)
(* The accessibility score of a longer list.                               *)
(***************************************************************************)
\* the issue list with one more issue at its end
C28_With(template) ==
    Append(issueList, [id |-> Len(issueList) + 1, severity |-> template.severity,
                       title |-> template.title])

\* C28: a list with one more accessibility-related issue never scores above
\* the list without it.
C28_Monotone ==
    accessibilityScore # NoResult =>
        \A template \in IssueTemplates :
            C16_HasKeyword(template.title) =>
                calculateAccessibilityScoreFromIssues(C28_With(template))
                    <= accessibilityScore.value

(***************************************************************************)
(* The two analyzers on the same document.                                 *)
(***************************************************************************)
\* the element issues with a given text
C30_ElementIssues(issue) ==
    SelectSeq(elemResult.elementIssues, LAMBDA i : i.issue = issue)

\* the Element Analyzer's text for a title or meta description issue of the
\* Document Analyzer
C30_ElementText(title) ==
    CASE title = "Missing page title" -> "Missing page title"
      [] title = "Title too short" -> "Title is too short"
      [] title = "Title too long" -> "Title is too long"
      [] title = "Missing meta description" -> "Missing meta description"
      [] title = "Meta description too short" -> "Meta description is too short"
      [] title = "Meta description too long" -> "Meta description is too long"
      [] OTHER -> ""

\* C30: when both analyzers returned on the same document, "Images missing
\* alt text" is reported exactly when there is an "Image missing alt text"
\* element issue, images.withoutAlt is the number of those element issues,
\* "Missing H1 heading" is reported by both or by neither, and every title
\* or meta description issue of the Document Analyzer has an element issue
\* of the same kind and severity.
C30_AnalyzersAgree ==
    HtmlReturned /\ ElemReturned =>
        /\ C26_Has("Images missing alt text")
              <=> Len(C30_ElementIssues("Image missing alt text")) >= 1
        /\ htmlResult.images.withoutAlt
              = Len(C30_ElementIssues("Image missing alt text"))
        /\ C26_Has("Missing H1 heading")
              <=> Len(C30_ElementIssues("Missing H1 heading")) >= 1
        /\ \A i \in 1..Len(htmlResult.issues) :
              C30_ElementText(htmlResult.issues[i].title) # "" =>
                  \E j \in 1..Len(elemResult.elementIssues) :
                      /\ elemResult.elementIssues[j].issue
                            = C30_ElementText(htmlResult.issues[i].title)
                      /\ elemResult.elementIssues[j].severity
                            = htmlResult.issues[i].severity

\* both analyzers ran on a page without title, with an image that has an
\* empty alt value and an image without alt attribute
C30_Witness ==
    /\ HtmlReturned /\ ElemReturned
    /\ C26_Has("Missing page title")
    /\ CountNodes(doc, LAMBDA n : n.tag = "img" /\ n.alt = "") > 0
    /\ Len(C30_ElementIssues("Image missing alt text")) = 1

====
